---- MODULE Spec2Model ----
(***************************************************************************)
(* Verification model of the apps registry: the version codec and the      *)
(* channel ordering (registry package), the finders, and the publish path  *)
(* of the HTTP router (createApp / createVersion).                         *)
(*                                                                         *)
(* Strings whose content the code inspects (version strings, editor names) *)
(* are sequences of one-character strings, so that strings.Contains,       *)
(* strings.SplitN, strconv.Atoi and strings.ToLower are computed as the    *)
(* code computes them.                                                     *)
(***************************************************************************)
EXTENDS Integers, Sequences, FiniteSets, TLC

VARIABLES
    vault,   \* editors database: the editor documents
    apps,    \* apps databases: the App documents, each with its space
    vers,    \* versions databases: the Version documents, each with its space
    now,     \* wall clock read by time.Now()
    pc,      \* position of each HTTP request task inside its handler
    req,     \* locals of each HTTP request task
    audit,   \* history: which token published which version document
    call,    \* arguments of the library call under examination
    ret      \* its result

vars == <<vault, apps, vers, now, pc, req, audit, call, ret>>

None == "none"

\* no call made yet
NoRet == [op |-> None]

(***************************************************************************)
(* Go string helpers over sequences of characters                          *)
(***************************************************************************)

\* strings.HasPrefix(s[i-1:], sub)
HasSubAt(s, sub, i) ==
    /\ i >= 1
    /\ i + Len(sub) - 1 <= Len(s)
    /\ SubSeq(s, i, i + Len(sub) - 1) = sub

\* strings.Index, 1-based; 0 when sub does not occur (Go: -1)
Index(s, sub) ==
    IF \E i \in 1..(Len(s) + 1) : HasSubAt(s, sub, i)
    THEN CHOOSE i \in 1..(Len(s) + 1) :
            /\ HasSubAt(s, sub, i)
            /\ \A j \in 1..(i - 1) : ~HasSubAt(s, sub, j)
    ELSE 0

Contains(s, sub) == Index(s, sub) # 0

\* strings.SplitN(s, sep, n) for n > 0 and a non-empty sep
RECURSIVE SplitN(_, _, _)
SplitN(s, sep, n) ==
    IF n <= 1 \/ Index(s, sep) = 0
    THEN <<s>>
    ELSE LET i == Index(s, sep)
         IN  <<SubSeq(s, 1, i - 1)>> \o
             SplitN(SubSeq(s, i + Len(sep), Len(s)), sep, n - 1)

Digits == <<"0", "1", "2", "3", "4", "5", "6", "7", "8", "9">>

IsDigit(c) == \E d \in 1..10 : Digits[d] = c

DigitVal(c) == (CHOOSE d \in 1..10 : Digits[d] = c) - 1

RECURSIVE AtoiAcc(_, _)
AtoiAcc(s, acc) ==
    IF s = <<>> THEN acc
    ELSE AtoiAcc(Tail(s), acc * 10 + DigitVal(Head(s)))

AtoiErr == -1

\* strconv.Atoi on the unsigned decimal strings of the model; AtoiErr on a
\* syntax error
Atoi(s) ==
    IF s # <<>> /\ \A i \in 1..Len(s) : IsDigit(s[i])
    THEN AtoiAcc(s, 0)
    ELSE AtoiErr

(***************************************************************************)
(* Version codec                                                           *)
(***************************************************************************)

devSuffix == <<"-", "d", "e", "v", ".">>
betaSuffix == <<"-", "b", "e", "t", "a", ".">>

Stable == "stable"
Beta == "beta"
Dev == "dev"
Channels == {Stable, Beta, Dev}

GetVersionChannel(version) ==
    IF Contains(version, devSuffix) THEN Dev
    ELSE IF Contains(version, betaSuffix) THEN Beta
    ELSE Stable

getVersionChannel(version) ==
    IF Contains(version, devSuffix) THEN Dev
    ELSE IF Contains(version, betaSuffix) THEN Beta
    ELSE Stable

Panic == "panic"

\* the fields of SplitVersion's strings.SplitN(version, ".", 3)
SplitFields(version) ==
    LET ch == GetVersionChannel(version)
        cut == IF ch = Beta THEN SubSeq(version, 1, Index(version, betaSuffix) - 1)
               ELSE IF ch = Dev THEN SubSeq(version, 1, Index(version, devSuffix) - 1)
               ELSE version
    IN  SplitN(cut, <<".">>, 3)

\* SplitVersion reads s[0], s[1], s[2] of the SplitN result without looking
\* at its length: with fewer than three fields the index expression panics
\* (runtime error: index out of range).
SplitVersionPanics(version) == Len(SplitFields(version)) < 3

SplitVersion(version) ==
    LET s == SplitFields(version)
    IN  <<s[1], s[2], s[3]>>

VersionMatchPanics(ver1, ver2) ==
    SplitVersionPanics(ver1) \/ SplitVersionPanics(ver2)

VersionMatch(ver1, ver2) ==
    LET v1 == SplitVersion(ver1)
        v2 == SplitVersion(ver2)
    IN  v1[1] = v2[1] /\ v1[2] = v2[2] /\ v1[3] = v2[3]

ErrVersionInvalid == "ErrVersionInvalid"

\* expandVersion returns [v, exp, err]
expandVersion(version) ==
    LET sp == SplitN(version, <<".">>, 3)
        bad == [v |-> <<0, 0, 0>>, exp |-> 0, err |-> ErrVersionInvalid]
    IN  IF Len(sp) # 3 THEN bad
        ELSE IF Atoi(sp[1]) = AtoiErr \/ Atoi(sp[2]) = AtoiErr THEN bad
        ELSE LET ch == getVersionChannel(version)
                 sp2 == IF ch = Beta THEN SplitN(sp[3], betaSuffix, 2)
                        ELSE IF ch = Dev THEN SplitN(sp[3], devSuffix, 2)
                        ELSE <<sp[3]>>
             IN  IF ch # Stable /\ Len(sp2) # 2 THEN bad
                 ELSE IF Atoi(sp2[1]) = AtoiErr THEN bad
                 ELSE IF ch = Beta /\ Atoi(sp2[2]) = AtoiErr THEN bad
                 ELSE [v |-> <<Atoi(sp[1]), Atoi(sp[2]), Atoi(sp2[1])>>,
                       exp |-> IF ch = Beta THEN Atoi(sp2[2]) ELSE 0,
                       err |-> None]

\* isVersionLess panics when expandVersion fails on either version string
isVersionLessPanics(a, b) ==
    \/ expandVersion(a.Version).err # None
    \/ expandVersion(b.Version).err # None

isVersionLess(a, b) ==
    LET ei == expandVersion(a.Version)
        ej == expandVersion(b.Version)
        vi == ei.v
        vj == ej.v
        chi == getVersionChannel(a.Version)
        chj == getVersionChannel(b.Version)
    IN  IF vi[1] < vj[1] THEN TRUE
        ELSE IF vi[1] = vj[1] /\ vi[2] < vj[2] THEN TRUE
        ELSE IF vi[1] = vj[1] /\ vi[2] = vj[2] /\ vi[3] < vj[3] THEN TRUE
        ELSE IF vi[1] = vj[1] /\ vi[2] = vj[2] /\ vi[3] = vj[3]
             THEN IF chi = Beta /\ chj = Beta THEN ei.exp < ej.exp
                  ELSE IF chi # chj /\ chi = Stable THEN TRUE
                  ELSE IF chi # chj /\ chj = Stable THEN FALSE
                  ELSE a.CreatedAt < b.CreatedAt
        ELSE FALSE

(***************************************************************************)
(* Version strings and documents the checks range over                     *)
(***************************************************************************)

V100 == <<"1", ".", "0", ".", "0">>
V100b1 == V100 \o betaSuffix \o <<"1">>
V100b2 == V100 \o betaSuffix \o <<"2">>
V100b10 == V100 \o betaSuffix \o <<"1", "0">>
V100da == V100 \o devSuffix \o <<"a">>
V100db == V100 \o devSuffix \o <<"b">>
V101 == <<"1", ".", "0", ".", "1">>
V120 == <<"1", ".", "2", ".", "0">>
V1100 == <<"1", ".", "1", "0", ".", "0">>
V200da == <<"2", ".", "0", ".", "0">> \o devSuffix \o <<"a">>

\* valid version strings (validVersionReg) used to exercise the ordering
OrderVersions == {V100, V100b1, V100b2, V100b10, V100da, V100db, V101, V120, V1100, V200da}

MaxTime == 3
Times == 1..MaxTime

VersionDocs(strings) == [Version : strings, CreatedAt : Times]

\* state of the parts of the system a library-level check does not touch
NoStore ==
    /\ vault = {}
    /\ apps = {}
    /\ vers = {}
    /\ now = 0
    /\ pc = "call"
    /\ req = [tryCount |-> 0]
    /\ audit = {}

StoreVars == <<vault, apps, vers, now, pc, req, audit>>

(***************************************************************************)
(* Ordering harness: isVersionLess applied to every pair of three          *)
(* Version documents                                                       *)
(***************************************************************************)

InitLess ==
    /\ NoStore
    /\ call \in [a : VersionDocs(OrderVersions), b : VersionDocs(OrderVersions),
                 c : VersionDocs(OrderVersions)]
    /\ ret = NoRet

LessCall ==
    /\ ret = NoRet
    /\ ~isVersionLessPanics(call.a, call.b)
    /\ ~isVersionLessPanics(call.b, call.c)
    /\ ret' = [op |-> "isVersionLess",
               aa |-> isVersionLess(call.a, call.a),
               ab |-> isVersionLess(call.a, call.b),
               ba |-> isVersionLess(call.b, call.a),
               bc |-> isVersionLess(call.b, call.c),
               ac |-> isVersionLess(call.a, call.c)]
    /\ UNCHANGED <<call, StoreVars>>

NextLess == LessCall

SpecLess == InitLess /\ [][NextLess]_vars

\* C8: isVersionLess is a strict order on valid versions with arbitrary
\* creation timestamps: irreflexive (never a < a), antisymmetric (never both
\* a < b and b < a) and transitive (a < b and b < c imply a < c), so no cycle
\* exists among beta and dev versions of one MAJOR.MINOR.PATCH.
C8_StrictWeakOrder ==
    ret.op = "isVersionLess" =>
        /\ ~ret.aa
        /\ ~(ret.ab /\ ret.ba)
        /\ ((ret.ab /\ ret.bc) => ret.ac)

(***************************************************************************)
(* Manifest consistency check of downloadVersion                           *)
(***************************************************************************)

Unprocessable == "Unprocessable"

\* the version comparison applied to manifest.version and to the version of
\* package.json: exact for stable and beta, VersionMatch for dev
versionFieldPanics(optsVersion, version) ==
    /\ GetVersionChannel(optsVersion) = Dev
    /\ VersionMatchPanics(optsVersion, version)

versionFieldMatch(optsVersion, version) ==
    IF GetVersionChannel(optsVersion) # Dev
    THEN optsVersion = version
    ELSE VersionMatch(optsVersion, version)

\* the checks that fill errm: None when the manifest is accepted,
\* Unprocessable when errm is not nil, Panic when SplitVersion panics
manifestCheck(optsVersion, parsedManifest, packVersion) ==
    LET version == parsedManifest.Version
        editorErr == parsedManifest.Editor = <<>>
        slugErr == parsedManifest.Slug = ""
    IN  IF version # <<>> /\ versionFieldPanics(optsVersion, version) THEN Panic
        ELSE IF packVersion # <<>> /\ versionFieldPanics(optsVersion, packVersion)
             THEN Panic
        ELSE LET match == IF version = <<>> THEN FALSE
                          ELSE versionFieldMatch(optsVersion, version)
                 packErr == /\ packVersion # <<>>
                            /\ ~versionFieldMatch(optsVersion, packVersion)
             IN  IF editorErr \/ slugErr \/ ~match \/ packErr
                 THEN Unprocessable
                 ELSE None

\* strings found in manifests: version fields are not validated before use
V10 == <<"1", ".", "0">>
V1 == <<"1">>
V1005 == <<"1", ".", "0", ".", "0", ".", "5">>
V0100 == <<"0", "1", ".", "0", ".", "0">>

ManifestVersions ==
    {<<>>, V100, V100b1, V100b2, V100da, V100db, V101, V120, V10, V1, V1005, V0100}

\* supplied version strings have passed IsValidVersion
OptsVersions == {V100, V100b1, V100da, V101, V120}

PackVersions == {<<>>, V100, V100da, V10, V101}

EdA == <<"a">>
EdB == <<"b">>

InitMatch ==
    /\ NoStore
    /\ call \in [Version : OptsVersions,
                 manifest : [Editor : {<<>>, EdA}, Slug : {"", "notes"},
                             Version : ManifestVersions],
                 pack : PackVersions]
    /\ ret = NoRet

MatchCall ==
    /\ ret = NoRet
    /\ ret' = [op |-> "manifestCheck",
               err |-> manifestCheck(call.Version, call.manifest, call.pack)]
    /\ UNCHANGED <<call, StoreVars>>

NextMatch == MatchCall

SpecMatch == InitMatch /\ [][NextMatch]_vars

\* the rule of the claim: exact equality for stable and beta, equal
\* MAJOR, MINOR, PATCH components for dev
C6_Accepts(v, m) ==
    \/ GetVersionChannel(v) # Dev /\ m = v
    \/ /\ GetVersionChannel(v) = Dev
       /\ Len(SplitFields(m)) >= 3
       /\ Len(SplitFields(v)) >= 3
       /\ \A i \in 1..3 : SplitFields(m)[i] = SplitFields(v)[i]

\* C6: with editor and slug present and no package.json, downloadVersion
\* accepts manifest version m for supplied version v exactly when v is stable
\* or beta and m = v, or v is dev and the MAJOR, MINOR, PATCH components of m
\* and v are equal; every other pair (an empty m included) is rejected with
\* an Unprocessable error.
C6_MatchRule ==
    (/\ ret.op = "manifestCheck"
     /\ call.manifest.Editor # <<>>
     /\ call.manifest.Slug # ""
     /\ call.pack = <<>>)
    => /\ (ret.err = None) <=> C6_Accepts(call.Version, call.manifest.Version)
       /\ ~C6_Accepts(call.Version, call.manifest.Version) => ret.err = Unprocessable

(***************************************************************************)
(* Editors vault, tokens                                                   *)
(***************************************************************************)

UpperCase == <<"A", "B">>
LowerCase == <<"a", "b">>

\* strings.ToLower on the letters of the model
ToLowerChar(ch) ==
    IF \E i \in 1..Len(UpperCase) : UpperCase[i] = ch
    THEN LowerCase[CHOOSE i \in 1..Len(UpperCase) : UpperCase[i] = ch]
    ELSE ch

ToLower(str) == [i \in 1..Len(str) |-> ToLowerChar(str[i])]

ErrEditorNotFound == "ErrEditorNotFound"
ErrEditorExists == "ErrEditorExists"

\* variant: the name is looked up as it is written
getEditorExactCase(editorName) ==
    LET found == {e \in vault : e.ID = editorName}
    IN  IF found = {} THEN [err |-> ErrEditorNotFound]
        ELSE [err |-> None, doc |-> CHOOSE e \in found : TRUE]

\* couchdbVault.getEditor: the document whose id is the lowercased name
getEditor(editorName) ==
    LET found == {e \in vault : e.ID = ToLower(editorName)}
    IN  IF found = {} THEN [err |-> ErrEditorNotFound]
        ELSE [err |-> None, doc |-> CHOOSE e \in found : TRUE]

GetEditor(editorName) == getEditor(editorName)

\* A bearer token is described by what the two verifications say of it:
\* master tells whether auth.VerifyToken(sessionSecret, token) accepts it,
\* editor names the one editor whose VerifySessionToken accepts it.
NoEditor == <<>>

NoToken == [header |-> FALSE, master |-> FALSE, editor |-> NoEditor]

VerifyToken(token) == token.master

VerifySessionToken(editor, token) == token.editor = editor.ID

Unauthorized == "Unauthorized"

\* extractAuthHeader: the Authorization header must carry a token
extractAuthHeader(token) == IF token.header THEN None ELSE Unauthorized

checkAuthorized(token) ==
    IF extractAuthHeader(token) # None THEN Unauthorized
    ELSE IF ~VerifyToken(token) THEN Unauthorized
    ELSE None

\* checkPermissions returns [err, editor]
checkPermissions(token, editorName) ==
    IF extractAuthHeader(token) # None THEN [err |-> Unauthorized]
    ELSE LET e == GetEditor(editorName)
         IN  IF e.err # None THEN [err |-> Unauthorized]
             ELSE IF ~VerifySessionToken(e.doc, token) THEN [err |-> Unauthorized]
             ELSE [err |-> None, editor |-> e.doc]

(***************************************************************************)
(* Apps and versions databases                                             *)
(***************************************************************************)

ErrAppAlreadyExists == "ErrAppAlreadyExists"
ErrAppNotFound == "ErrAppNotFound"
ErrAppSlugInvalid == "ErrAppSlugInvalid"
ErrAppInvalid == "ErrAppInvalid"
ErrVersionAlreadyExists == "ErrVersionAlreadyExists"
ErrVersionSlugMismatch == "ErrVersionSlugMismatch"
ErrVersionNotFound == "ErrVersionNotFound"
ErrBadRequest == "ErrBadRequest"
ErrConflict == "StoreConflict"

SlugChars == {"a", "c", "e", "h", "n", "o", "s", "t", "0", "1", "-"}

\* validSlugReg: ^[a-z0-9\-]*$
validSlug(slug) == \A i \in 1..Len(slug) : slug[i] \in SlugChars

validAppTypes == {"webapp", "konnector"}

IsValidApp(opts) ==
    IF opts.Slug = <<>> \/ ~validSlug(opts.Slug) THEN ErrAppSlugInvalid
    ELSE IF opts.Editor = <<>> \/ opts.Type \notin validAppTypes THEN ErrAppInvalid
    ELSE None

getAppID(slug) == slug

getVersionID(slug, version) == <<slug, version>>

\* FindApp(c, slug): the document of the apps database of space c
FindApp(c, slug) ==
    LET found == {a \in apps : a.space = c /\ a.Slug = slug}
    IN  IF found = {} THEN [err |-> ErrAppNotFound]
        ELSE [err |-> None, doc |-> CHOOSE a \in found : TRUE]

\* variant: the look-up never sees the document
FindVersionBlind(c, slug, version) == [err |-> ErrVersionNotFound]

\* FindVersion(c, slug, version)
FindVersion(c, slug, version) ==
    LET found == {v \in vers : v.space = c /\ v.Slug = slug /\ v.Version = version}
    IN  IF found = {} THEN [err |-> ErrVersionNotFound]
        ELSE [err |-> None, doc |-> CHOOSE v \in found : TRUE]

\* at most one Version document per (space, slug, version-string)
OneDocPerKey ==
    \A d1, d2 \in vers :
        (d1.space = d2.space /\ d1.Slug = d2.Slug /\ d1.Version = d2.Version) => d1 = d2

DocsOf(c, slug, version) ==
    {d \in vers : d.space = c /\ d.Slug = slug /\ d.Version = version}

\* db.CreateDoc: the store rejects a document whose _id is already taken in
\* that database
CreateDocConflicts(db, c, id) == \E d \in db : d.space = c /\ d.ID = id

\* the App document CreateApp builds
newApp(c, opts, editor) ==
    [space |-> c, ID |-> getAppID(opts.Slug), Slug |-> getAppID(opts.Slug),
     Type |-> opts.Type, Editor |-> editor.Name, CreatedAt |-> now]

\* CreateApp(c, opts, editor) returns [err, apps]: the error and the apps
\* databases after the call
CreateApp(c, opts, editor) ==
    IF IsValidApp(opts) # None THEN [err |-> IsValidApp(opts), apps |-> apps]
    ELSE IF FindApp(c, opts.Slug).err = None
         THEN [err |-> ErrAppAlreadyExists, apps |-> apps]
    ELSE IF CreateDocConflicts(apps, c, getAppID(opts.Slug))
         THEN [err |-> ErrConflict, apps |-> apps]
    ELSE [err |-> None, apps |-> apps \cup {newApp(c, opts, editor)}]

(***************************************************************************)
(* Download pipeline                                                       *)
(***************************************************************************)

SlugNotes == <<"n", "o", "t", "e", "s">>
SlugChat == <<"c", "h", "a", "t">>

\* The archives the remote servers hold.  An archive is described by what
\* the walk of downloadVersion reads from it: the manifest file found
\* (mtype, "" when there is none), the manifest fields, the version of
\* package.json ("" when absent) and whether the second walk harvests an
\* icon (the icon path it resolves is the name of a file of the archive).
Archive(id, mtype, editor, slug, version, icon) ==
    [id |-> id, mtype |-> mtype, Editor |-> editor, Slug |-> slug,
     Version |-> version, pack |-> <<>>, icon |-> icon]

Archives ==
    {Archive(1, "webapp", EdA, SlugNotes, V100, TRUE),
     Archive(2, "konnector", EdB, SlugNotes, V100, FALSE),
     Archive(3, "webapp", EdA, SlugChat, V100, FALSE),
     Archive(4, "webapp", EdA, SlugNotes, V100b1, FALSE),
     Archive(5, "webapp", EdA, SlugNotes, V101, TRUE)}

URLs == {a.id : a \in Archives}

\* the bytes a 200 response of the URL carries
Served(url) == CHOOSE a \in Archives : a.id = url

\* sha-256 as an injective map from contents to digests
Sha256(bytes) == <<"sha256", bytes.id>>

ZeroSum == <<"sha256", 0>>

FetchOutcomes == {"error", "status", "ok"}

\* downloadRequest(url, shasum) under one outcome of versionClient.Do:
\* returns [err] or [err, buf]
\* variant: the digest comparison is skipped
checksumMatchesSkipped(shasum, buf) == TRUE

checksumMatches(shasum, buf) == shasum = Sha256(buf)

downloadRequest(url, shasum, outcome) ==
    IF outcome # "ok" THEN [err |-> Unprocessable]
    ELSE IF ~checksumMatches(shasum, Served(url)) THEN [err |-> Unprocessable]
    ELSE [err |-> None, buf |-> Served(url)]

\* the attachments harvested by the second pass
harvest(buf) == IF buf.icon THEN <<"icon">> ELSE <<>>

\* variant: the record is assembled without its identifier
newVersionNoID(opts, buf, t) ==
    [ID |-> <<>>, Slug |-> buf.Slug,
     Version |-> opts.Version, Type |-> buf.mtype, URL |-> opts.URL,
     Sha256 |-> opts.Sha256, Editor |-> buf.Editor, CreatedAt |-> t,
     attachments |-> harvest(buf)]

\* the Version record assembled at the end of downloadVersion
newVersion(opts, buf, t) ==
    [ID |-> getVersionID(buf.Slug, opts.Version), Slug |-> buf.Slug,
     Version |-> opts.Version, Type |-> buf.mtype, URL |-> opts.URL,
     Sha256 |-> opts.Sha256, Editor |-> buf.Editor, CreatedAt |-> t,
     attachments |-> harvest(buf)]

\* downloadVersion after the download loop has left buf: walk, manifest
\* checks, attachments, assembly.  Returns [err] or [err, ver].
walkArchive(opts, buf, t) ==
    IF buf.mtype = "" THEN [err |-> Unprocessable]
    ELSE LET m == manifestCheck(opts.Version,
                      [Editor |-> buf.Editor, Slug |-> buf.Slug, Version |-> buf.Version],
                      buf.pack)
         IN  IF m # None THEN [err |-> m]
             ELSE [err |-> None, ver |-> newVersion(opts, buf, t)]

\* the bound of the retry loop: "else if tryCount <= 3 { continue }"
RetryLimit == 3

\* whether the loop goes round again after a failed attempt number tryCount
retryAgain(tryCount) == tryCount <= RetryLimit

\* DownloadVersion as one step of a caller: fetched tells whether one of the
\* attempts of the loop obtained the body
DownloadVersion(opts, fetched, t) ==
    LET r == downloadRequest(opts.URL, opts.Sha256, IF fetched THEN "ok" ELSE "error")
    IN  IF r.err # None THEN [err |-> r.err]
        ELSE walkArchive(opts, r.buf, t)

(***************************************************************************)
(* downloadVersion, attempt by attempt                                     *)
(***************************************************************************)

VersionOptions ==
    [Version : {V100, V100da}, URL : URLs,
     Sha256 : {Sha256(a) : a \in Archives} \cup {ZeroSum}]

InitDownload ==
    /\ vault = {}
    /\ apps = {}
    /\ vers = {}
    /\ now = 0
    /\ audit = {}
    /\ call \in VersionOptions
    /\ pc = "downloadRequest"
    /\ req = [tryCount |-> 0, requests |-> 0, lastErr |-> None]
    /\ ret = NoRet

\* one iteration of the loop: tryCount++, one HTTP request, then break,
\* continue or return
DownloadAttempt ==
    /\ pc = "downloadRequest"
    /\ \E outcome \in FetchOutcomes :
        LET r == downloadRequest(call.URL, call.Sha256, outcome)
            tryCount == req.tryCount + 1
        IN  /\ req' = [tryCount |-> tryCount, requests |-> req.requests + 1,
                       lastErr |-> r.err]
            /\ IF r.err = None
               THEN pc' = "walk" /\ ret' = ret
               ELSE IF retryAgain(tryCount)
               THEN pc' = "downloadRequest" /\ ret' = ret
               ELSE pc' = "done" /\ ret' = [op |-> "downloadVersion", err |-> r.err]
    /\ UNCHANGED <<vault, apps, vers, now, audit, call>>

\* the rest of downloadVersion once the loop has broken out
DownloadWalk ==
    /\ pc = "walk"
    /\ pc' = "done"
    /\ ret' = [op |-> "downloadVersion"] @@ walkArchive(call, Served(call.URL), now)
    /\ UNCHANGED <<vault, apps, vers, now, audit, call, req>>

NextDownload == DownloadAttempt \/ DownloadWalk

SpecDownload == InitDownload /\ [][NextDownload]_vars

\* C5: one ingest performs at most three HTTP fetch attempts: it stops at the
\* first success, and after a third consecutive failure it returns the
\* Unprocessable error without issuing a fourth request.
C5_AtMostThreeFetches ==
    /\ req.requests <= 3
    /\ (req.requests = 3 /\ req.lastErr # None) => pc = "done"

(***************************************************************************)
(* HTTP publish path: createApp and createVersion handlers, run by         *)
(* concurrent request tasks                                                *)
(***************************************************************************)

\* two request tasks, so that two publishes can overlap
Tasks == {"t1", "t2"}

\* the space of the routes under examination
Spaces == {"main"}

EdBName == <<"B">>

\* the editors the operator has registered: name "a", and name "B" under
\* the id "b"
Editors == {[ID |-> ToLower(EdA), Name |-> EdA], [ID |-> ToLower(EdBName), Name |-> EdBName]}

Tokens ==
    {NoToken,
     [header |-> TRUE, master |-> FALSE, editor |-> NoEditor],
     [header |-> TRUE, master |-> TRUE, editor |-> EdA],
     [header |-> TRUE, master |-> TRUE, editor |-> EdB]}

VV100 == <<"v">> \o V100

AppOptions ==
    [Slug : {SlugNotes, <<"N">>}, Editor : {<<>>, EdA, EdB}, Type : {"webapp", "applet"}]

\* the declared digest is the one of the served bytes or another one
RequestOptions ==
    UNION {[Version : {V100, VV100, V10}, URL : {u},
            Sha256 : {Sha256(Served(u)), ZeroSum}] : u \in URLs}

\* stripVersion removes the 'v' prefix if any
stripVersion(v) == IF Len(v) > 0 /\ v[1] = "v" THEN Tail(v) ELSE v

HexChars == {"a", "b", "c", "d", "e", "f", "0", "1", "2", "3", "4", "5", "6", "7", "8", "9"}

\* (0|[1-9][0-9]{0,4})
isNumber(str) ==
    \/ str = <<"0">>
    \/ /\ Len(str) \in 1..5
       /\ str[1] # "0"
       /\ \A i \in 1..Len(str) : IsDigit(str[i])

\* (-dev\.[a-f0-9]{1,40}|-beta.(0|[1-9][0-9]{0,4}))
isSuffix(str) ==
    \/ /\ HasSubAt(str, devSuffix, 1)
       /\ Len(str) - Len(devSuffix) \in 1..40
       /\ \A i \in (Len(devSuffix) + 1)..Len(str) : str[i] \in HexChars
    \/ /\ HasSubAt(str, <<"-", "b", "e", "t", "a">>, 1)
       /\ Len(str) >= 7
       /\ isNumber(SubSeq(str, 7, Len(str)))

\* validVersionReg
validVersion(v) ==
    LET f == SplitN(v, <<".">>, 3)
    IN  /\ Len(f) = 3
        /\ isNumber(f[1])
        /\ isNumber(f[2])
        /\ \E k \in 1..Len(f[3]) :
              /\ isNumber(SubSeq(f[3], 1, k))
              /\ k = Len(f[3]) \/ isSuffix(SubSeq(f[3], k + 1, Len(f[3])))

\* IsValidVersion: the URLs and digests of the requests are well formed
IsValidVersion(opts) == IF validVersion(opts.Version) THEN None ELSE ErrBadRequest

Idle == [c |-> None]

Init ==
    /\ vault = Editors
    /\ apps = {}
    /\ vers = {}
    /\ now = 0
    /\ audit = {}
    /\ pc = [p \in Tasks |-> "idle"]
    /\ req = [p \in Tasks |-> Idle]
    /\ call = None
    /\ ret = NoRet

\* the createApp handler
createApp(c, opts, token) ==
    /\ checkAuthorized(token) = None
    /\ IsValidApp(opts) = None
    /\ checkPermissions(token, opts.Editor).err = None
    /\ apps' = CreateApp(c, opts, checkPermissions(token, opts.Editor).editor).apps
    /\ apps' # apps
    /\ UNCHANGED <<vault, vers, now, pc, req, audit, call, ret>>

\* the task ends its request and the response carries err
finish(p, err) ==
    /\ pc' = [pc EXCEPT ![p] = "idle"]
    /\ req' = [req EXCEPT ![p] = Idle]
    /\ ret' = [op |-> "createVersion", err |-> err]

mismatchEvent(c, slug, version) ==
    [kind |-> "mismatch", c |-> c, Slug |-> slug, Version |-> version]

\* createVersion from its entry to the return of checkPermissions
createVersionBegin(p, c, appSlug, o, token, fetched) ==
    LET app == FindApp(c, appSlug)
        opts == [o EXCEPT !.Version = stripVersion(o.Version)]
        dl == DownloadVersion(opts, fetched, now)
        reached == /\ checkAuthorized(token) = None
                   /\ app.err = None
                   /\ IsValidVersion(opts) = None
                   /\ FindVersion(c, appSlug, opts.Version).err # None
    IN  /\ pc[p] = "idle"
        /\ UNCHANGED <<vault, apps, vers, now, call>>
        /\ audit' = IF reached /\ fetched /\ opts.Sha256 # Sha256(Served(opts.URL))
                    THEN audit \cup {mismatchEvent(c, appSlug, opts.Version)}
                    ELSE audit
        /\ IF checkAuthorized(token) # None THEN finish(p, Unauthorized)
           ELSE IF app.err # None THEN finish(p, app.err)
           ELSE IF IsValidVersion(opts) # None THEN finish(p, ErrBadRequest)
           ELSE IF FindVersion(c, appSlug, opts.Version).err = None
           THEN finish(p, ErrVersionAlreadyExists)
           ELSE IF dl.err # None THEN finish(p, dl.err)
           ELSE IF checkPermissions(token, dl.ver.Editor).err # None
           THEN finish(p, Unauthorized)
           ELSE /\ pc' = [pc EXCEPT ![p] = "CreateVersion"]
                /\ req' = [req EXCEPT ![p] =
                              [c |-> c, app |-> app.doc, ver |-> dl.ver, token |-> token]]
                /\ ret' = ret

\* variant: the editor and the type of the manifest are kept
stampVersionSlugOnly(ver, app) == [ver EXCEPT !.Slug = app.Slug]

\* CreateVersion stamps the fields of the App on the version
stampVersion(ver, app) ==
    [ver EXCEPT !.Slug = app.Slug, !.Type = app.Type, !.Editor = app.Editor]

\* CreateVersion up to the stamping
CreateVersionFind(p) ==
    /\ pc[p] = "CreateVersion"
    /\ IF req[p].ver.Slug # req[p].app.Slug
       THEN finish(p, ErrVersionSlugMismatch)
       ELSE IF FindVersion(req[p].c, req[p].ver.Slug, req[p].ver.Version).err = None
       THEN finish(p, ErrVersionAlreadyExists)
       ELSE /\ pc' = [pc EXCEPT ![p] = "CreateDoc"]
            /\ req' = [req EXCEPT ![p].ver = stampVersion(req[p].ver, req[p].app)]
            /\ ret' = ret
    /\ UNCHANGED <<vault, apps, vers, now, audit, call>>

NoID == <<>>

\* the _id of the document db.CreateDoc stores: the one of the document, or
\* one the store generates when the document has none
docID(db, id) == IF id = NoID THEN <<"uuid", Cardinality(db)>> ELSE id

\* the Version document as stored
versionDoc(c, ver) ==
    [space |-> c, ID |-> docID(vers, ver.ID), Slug |-> ver.Slug, Type |-> ver.Type,
     Editor |-> ver.Editor, Version |-> ver.Version, URL |-> ver.URL,
     Sha256 |-> ver.Sha256, CreatedAt |-> ver.CreatedAt, Attachments |-> {}]

persistEvent(c, ver, token) ==
    [kind |-> "persist", c |-> c, Slug |-> ver.Slug, Version |-> ver.Version,
     token |-> token]

\* CreateVersion: db.CreateDoc(ctx, ver)
CreateVersionCreateDoc(p) ==
    /\ pc[p] = "CreateDoc"
    /\ IF CreateDocConflicts(vers, req[p].c, docID(vers, req[p].ver.ID))
       THEN finish(p, ErrConflict) /\ UNCHANGED <<vers, audit>>
       ELSE /\ vers' = vers \cup {versionDoc(req[p].c, req[p].ver)}
            /\ audit' = audit \cup {persistEvent(req[p].c, req[p].ver, req[p].token)}
            /\ IF req[p].ver.attachments = <<>>
               THEN finish(p, None)
               ELSE /\ pc' = [pc EXCEPT ![p] = "PutAttachment"]
                    /\ req' = [req EXCEPT ![p] =
                                  [c |-> req[p].c, ver |-> req[p].ver,
                                   id |-> docID(vers, req[p].ver.ID), i |-> 1]]
                    /\ ret' = ret
    /\ UNCHANGED <<vault, apps, now, call>>

\* CreateVersion: db.PutAttachment of the next attachment
CreateVersionPutAttachment(p) ==
    /\ pc[p] = "PutAttachment"
    /\ vers' = {IF d.space = req[p].c /\ d.ID = req[p].id
                THEN [d EXCEPT !.Attachments = @ \cup {req[p].ver.attachments[req[p].i]}]
                ELSE d : d \in vers}
    /\ IF req[p].i = Len(req[p].ver.attachments)
       THEN finish(p, None)
       ELSE pc' = pc /\ req' = [req EXCEPT ![p].i = @ + 1] /\ ret' = ret
    /\ UNCHANGED <<vault, apps, now, audit, call>>

Next ==
    \/ \E c \in Spaces, opts \in AppOptions, token \in Tokens : createApp(c, opts, token)
    \/ \E p \in Tasks, c \in Spaces, o \in RequestOptions, token \in Tokens,
          fetched \in BOOLEAN :
          createVersionBegin(p, c, SlugNotes, o, token, fetched)
    \/ \E p \in Tasks : CreateVersionFind(p)
    \/ \E p \in Tasks : CreateVersionCreateDoc(p)
    \/ \E p \in Tasks : CreateVersionPutAttachment(p)

Spec == Init /\ [][Next]_vars

(***************************************************************************)
(* The library called sequentially                                         *)
(***************************************************************************)

Range(seq) == {seq[i] : i \in 1..Len(seq)}

\* CreateVersion(c, ver, app, editor) as one call: returns [err, vers], the
\* error and the versions databases after the call
CreateVersion(c, ver, app) ==
    IF ver.Slug # app.Slug THEN [err |-> ErrVersionSlugMismatch, vers |-> vers]
    ELSE IF FindVersion(c, ver.Slug, ver.Version).err = None
         THEN [err |-> ErrVersionAlreadyExists, vers |-> vers]
    ELSE IF CreateDocConflicts(vers, c, docID(vers, stampVersion(ver, app).ID))
         THEN [err |-> ErrConflict, vers |-> vers]
    ELSE [err |-> None,
          vers |-> vers \cup
              {[versionDoc(c, stampVersion(ver, app))
                   EXCEPT !.Attachments = Range(ver.attachments)]}]

SeqSpaces == {"main", "alt"}

\* the requests whose archive DownloadVersion accepts
SeqRequestOptions ==
    UNION {[Version : {V100, V100da}, URL : {u}, Sha256 : {Sha256(Served(u))}] :
              u \in {1, 2, 3}}

Downloaded(options, t) ==
    {DownloadVersion(o, TRUE, t).ver :
        o \in {x \in options : DownloadVersion(x, TRUE, t).err = None}}

InitSeq ==
    /\ vault = Editors
    /\ apps = {}
    /\ vers = {}
    /\ now = 0
    /\ audit = {}
    /\ pc = "call"
    /\ req = Idle
    /\ call = NoRet
    /\ ret = NoRet

SeqCreateApp(c, opts, editor) ==
    /\ call' = [op |-> "CreateApp", c |-> c, Slug |-> opts.Slug]
    /\ ret' = [op |-> "CreateApp", err |-> CreateApp(c, opts, editor).err]
    /\ apps' = CreateApp(c, opts, editor).apps
    /\ UNCHANGED <<vault, vers, now, pc, req, audit>>

SeqCreateVersion(c, ver, app) ==
    /\ call' = [op |-> "CreateVersion", c |-> c, Slug |-> ver.Slug,
                Version |-> ver.Version]
    /\ ret' = [op |-> "CreateVersion", err |-> CreateVersion(c, ver, app).err]
    /\ vers' = CreateVersion(c, ver, app).vers
    /\ UNCHANGED <<vault, apps, now, pc, req, audit>>

NextSeq ==
    \/ \E c \in SeqSpaces, opts \in AppOptions, editor \in vault :
          SeqCreateApp(c, opts, editor)
    \/ \E c \in SeqSpaces, ver \in Downloaded(SeqRequestOptions, now) :
          \E app \in {a \in apps : a.space = c} :
              SeqCreateVersion(c, ver, app)

SpecSeq == InitSeq /\ [][NextSeq]_vars

AppsOf(c, slug) == {a \in apps : a.space = c /\ a.Slug = slug}

\* C3: in a sequential run, a CreateApp for a (space, slug) that has an App
\* fails with AppAlreadyExists and a CreateVersion for a (space, slug,
\* version-string) that has a Version fails with VersionAlreadyExists; both
\* leave the stored record as it is and create no second record.  The calls
\* are those that get as far as the look-up: options that pass IsValidApp, a
\* version whose slug is the slug of the App passed with it.
C3_SecondCreateFails ==
    /\ \A c \in SeqSpaces, opts \in AppOptions, editor \in vault :
          (IsValidApp(opts) = None /\ AppsOf(c, opts.Slug) # {}) =>
              /\ CreateApp(c, opts, editor).err = ErrAppAlreadyExists
              /\ CreateApp(c, opts, editor).apps = apps
    /\ \A c \in SeqSpaces, ver \in Downloaded(SeqRequestOptions, now), app \in apps :
          (ver.Slug = app.Slug /\ DocsOf(c, ver.Slug, ver.Version) # {}) =>
              /\ CreateVersion(c, ver, app).err = ErrVersionAlreadyExists
              /\ CreateVersion(c, ver, app).vers = vers
    /\ \A c \in SeqSpaces, slug \in {SlugNotes, SlugChat} :
          Cardinality(AppsOf(c, slug)) <= 1
    /\ OneDocPerKey

\* a CreateVersion has just been refused for a key that is taken in the
\* space of the call and free in the other one
C3_Witness ==
    /\ ret.op = "CreateVersion"
    /\ ret.err = ErrVersionAlreadyExists
    /\ call.op = "CreateVersion"
    /\ DocsOf(call.c, call.Slug, call.Version) # {}
    /\ \E c \in SeqSpaces : DocsOf(c, call.Slug, call.Version) = {}

(***************************************************************************)
(* FindLatestVersion                                                       *)
(***************************************************************************)

ErrChannelInvalid == "ErrChannelInvalid"
errBadAppName == "errBadAppName"

strToChannel(channel) ==
    IF channel \in Channels THEN [ch |-> channel, err |-> None]
    ELSE [ch |-> Stable, err |-> ErrChannelInvalid]

Letters == {"a", "c", "e", "h", "n", "o", "s", "t"}

\* validAppNameReg: ^[A-Za-z][A-Za-z0-9\-]*$
validAppName(appName) ==
    /\ Len(appName) > 0
    /\ appName[1] \in Letters
    /\ \A i \in 2..Len(appName) : appName[i] \in Letters \cup Digits \cup {"-"}

\* the "limit" of the selector of FindLatestVersion
findLimit == 2000

\* db.Find on {"selector": {"name": appName}, "limit": limit}: the rows the
\* store may return are limit documents of the matching ones, or all of
\* them when there are fewer
FindRows(db, appName, limit) ==
    LET matching == {d \in db : d.Slug = appName}
    IN  IF Cardinality(matching) <= limit THEN {matching}
        ELSE {X \in SUBSET matching : Cardinality(X) = limit}

\* variant: no row is skipped
channelAllowsAll(ch, doc) == TRUE

\* the switch on ch of the loop over the rows: FALSE when the row is skipped
channelAllows(ch, doc) ==
    IF ch = Stable THEN getVersionChannel(doc.Version) = Stable
    ELSE IF ch = Beta THEN getVersionChannel(doc.Version) \in {Stable, Beta}
    ELSE TRUE

\* one iteration of the loop over the rows; latest is <<>> for nil and
\* <<doc>> otherwise
scanRow(doc, ch, latest) ==
    IF ~channelAllows(ch, doc) THEN latest
    ELSE IF latest = <<>> THEN <<doc>>
    ELSE IF isVersionLess(latest[1], doc) THEN <<doc>>
    ELSE latest

\* the end of FindLatestVersion
latestOrNotFound(latest) ==
    IF latest = <<>> THEN [op |-> "FindLatestVersion", err |-> ErrVersionNotFound,
                           latest |-> <<>>]
    ELSE [op |-> "FindLatestVersion", err |-> None, latest |-> latest]

LatestSpace == "main"

\* the App the versions are published under
NotesApp ==
    [space |-> LatestSpace, ID |-> getAppID(SlugNotes), Slug |-> getAppID(SlugNotes),
     Type |-> "webapp", Editor |-> EdA, CreatedAt |-> 0]

LatestRequestOptions ==
    {[Version |-> V100, URL |-> 1, Sha256 |-> Sha256(Served(1))],
     [Version |-> V100da, URL |-> 1, Sha256 |-> Sha256(Served(1))],
     [Version |-> V100b1, URL |-> 4, Sha256 |-> Sha256(Served(4))],
     [Version |-> V101, URL |-> 5, Sha256 |-> Sha256(Served(5))]}

AppNames == {SlugNotes, <<"1", "n">>}

ChannelNames == Channels \cup {"nightly"}

InitLatest ==
    /\ vault = Editors
    /\ apps = {NotesApp}
    /\ vers = {}
    /\ now = 0
    /\ audit = {}
    /\ pc = "call"
    /\ req = Idle
    /\ call = NoRet
    /\ ret = NoRet

\* time passes between two calls
LatestTick ==
    /\ pc = "call"
    /\ now < MaxTime
    /\ now' = now + 1
    /\ call' = NoRet
    /\ ret' = NoRet
    /\ UNCHANGED <<vault, apps, vers, pc, req, audit>>

LatestPublish(ver) ==
    /\ pc = "call"
    /\ call' = [op |-> "CreateVersion", Slug |-> ver.Slug, channel |-> None]
    /\ LET r == CreateVersion(LatestSpace, ver, NotesApp)
       IN  /\ ret' = [op |-> "CreateVersion", err |-> r.err, latest |-> <<>>]
           /\ vers' = r.vers
    /\ UNCHANGED <<vault, apps, now, pc, req, audit>>

\* FindLatestVersion from its entry to the first rows.Next(): rows are the
\* documents the cursor has yet to yield
FindLatestVersionBegin(appName, channel) ==
    /\ pc = "call"
    /\ call' = [op |-> "FindLatestVersion", Slug |-> appName, channel |-> channel]
    /\ UNCHANGED <<vault, apps, vers, now, audit>>
    /\ IF strToChannel(channel).err # None
       THEN /\ ret' = [op |-> "FindLatestVersion", err |-> ErrChannelInvalid,
                       latest |-> <<>>]
            /\ UNCHANGED <<pc, req>>
       ELSE IF ~validAppName(appName)
       THEN /\ ret' = [op |-> "FindLatestVersion", err |-> errBadAppName,
                       latest |-> <<>>]
            /\ UNCHANGED <<pc, req>>
       ELSE \E rows \in FindRows(vers, appName, findLimit) :
               IF rows = {}
               THEN ret' = latestOrNotFound(<<>>) /\ UNCHANGED <<pc, req>>
               ELSE /\ pc' = "rows.Next"
                    /\ req' = [rows |-> rows, ch |-> strToChannel(channel).ch,
                               latest |-> <<>>]
                    /\ ret' = NoRet

\* one iteration of the loop on the row the cursor yields, and the end of
\* FindLatestVersion after the last one
FindLatestVersionRow ==
    /\ pc = "rows.Next"
    /\ \E doc \in req.rows :
          LET latest == scanRow(doc, req.ch, req.latest)
          IN  IF req.rows = {doc}
              THEN /\ pc' = "call"
                   /\ req' = Idle
                   /\ ret' = latestOrNotFound(latest)
              ELSE /\ pc' = pc
                   /\ req' = [req EXCEPT !.rows = @ \ {doc}, !.latest = latest]
                   /\ ret' = ret
    /\ UNCHANGED <<vault, apps, vers, now, audit, call>>

NextLatest ==
    \/ LatestTick
    \/ \E ver \in Downloaded(LatestRequestOptions, now) : LatestPublish(ver)
    \/ \E appName \in AppNames, channel \in ChannelNames :
          FindLatestVersionBegin(appName, channel)
    \/ FindLatestVersionRow

SpecLatest == InitLatest /\ [][NextLatest]_vars

\* the channels a request for a channel may be answered from
AllowedChannels(channel) ==
    IF channel = Stable THEN {Stable}
    ELSE IF channel = Beta THEN {Stable, Beta}
    ELSE {Stable, Beta, Dev}

\* FindLatestVersion has just answered a well-formed request
Answered ==
    /\ ret.op = "FindLatestVersion"
    /\ call.op = "FindLatestVersion"
    /\ call.channel \in Channels
    /\ validAppName(call.Slug)

Triple(version) == expandVersion(version).v

TripleLess(v, w) ==
    \/ v[1] < w[1]
    \/ v[1] = w[1] /\ v[2] < w[2]
    \/ v[1] = w[1] /\ v[2] = w[2] /\ v[3] < w[3]

\* the stable versions of the app that have a beta or dev version of the
\* same MAJOR.MINOR.PATCH beside them and no version of a higher one
TiedStable(slug) ==
    {d \in vers :
        /\ d.Slug = slug
        /\ GetVersionChannel(d.Version) = Stable
        /\ \E e \in vers : /\ e.Slug = slug
                           /\ GetVersionChannel(e.Version) # Stable
                           /\ Triple(e.Version) = Triple(d.Version)
        /\ \A e \in vers : e.Slug = slug => ~TripleLess(Triple(d.Version), Triple(e.Version))}

\* C9: whenever an app has a stable version X.Y.Z together with beta and/or
\* dev versions of the same X.Y.Z and no version with a higher
\* MAJOR.MINOR.PATCH, FindLatestVersion returns the stable X.Y.Z for each of
\* the channels stable, beta and dev, whatever the order and the timestamps
\* of publication.
C9_StableOutranks ==
    (Answered /\ TiedStable(call.Slug) # {}) =>
        /\ ret.err = None
        /\ ret.latest # <<>>
        /\ ret.latest[1] \in TiedStable(call.Slug)

Persisted == {e \in audit : e.kind = "persist"}

\* the App a persisted version was published under
AppOf(c, slug) == FindApp(c, slug).doc

\* C1: a Version is persisted under app A through createVersion only if the
\* bearer token of the request verifies for A's own editor (App.editor),
\* whatever editor the manifest of the archive declares.
C1_TokenOfAppEditor ==
    \A e \in Persisted :
        /\ FindApp(e.c, e.Slug).err = None
        /\ GetEditor(AppOf(e.c, e.Slug).Editor).err = None
        /\ VerifySessionToken(GetEditor(AppOf(e.c, e.Slug).Editor).doc, e.token)

\* task p leaves CreateVersion in this step because the key is taken
LosesRace(p) ==
    /\ pc[p] \in {"CreateVersion", "CreateDoc"}
    /\ pc'[p] = "idle"
    /\ ret'.err \notin {None, ErrVersionSlugMismatch}

\* C2 as claimed: under any interleaving of two concurrent publishes of one
\* (space, slug, version-string), exactly one Version document is persisted
\* for the key and the publish that loses ends with VersionAlreadyExists, not
\* with another error kind.
C2_LoserAlreadyExists ==
    /\ []OneDocPerKey
    /\ [][\A p \in Tasks : LosesRace(p) =>
            /\ ret'.err = ErrVersionAlreadyExists
            /\ Cardinality(DocsOf(req[p].c, req[p].app.Slug, req[p].ver.Version)) = 1]_vars

\* C2 amended: exactly one Version document is persisted for the key; the
\* publish that loses leaves it untouched and ends with VersionAlreadyExists
\* when one of its FindVersion look-ups sees the document, or with the
\* conflict error of the document store when db.CreateDoc is refused.
C2_LoserRejected ==
    /\ []OneDocPerKey
    /\ [][\A p \in Tasks : LosesRace(p) =>
            /\ ret'.err \in {ErrVersionAlreadyExists, ErrConflict}
            /\ vers' = vers
            /\ Cardinality(DocsOf(req[p].c, req[p].app.Slug, req[p].ver.Version)) = 1]_vars

\* a publish has just been refused by db.CreateDoc while the winner's
\* document is in the database
C2_Witness ==
    /\ ret.op = "createVersion"
    /\ ret.err = ErrConflict
    /\ \E c \in Spaces : Cardinality(DocsOf(c, SlugNotes, V100)) = 1

\* every persisted Version carries the digest of the bytes its URL served
DigestMatches == \A d \in vers : d.Sha256 = Sha256(Served(d.URL))

\* the step in which a request fetched bytes whose digest differs from the
\* declared one
MismatchStep == \E e \in audit' \ audit : e.kind = "mismatch"

\* C4: a Version is persisted only if the sha-256 of the downloaded bytes
\* equals the declared sha256; when they differ the publish ends with an
\* Unprocessable error and persists no Version document and no attachment,
\* so that a later publish of the same (slug, version-string) with a correct
\* digest is still accepted.
C4_DigestChecked ==
    /\ []DigestMatches
    /\ [][MismatchStep =>
            /\ ret'.op = "createVersion"
            /\ ret'.err = Unprocessable
            /\ vers' = vers
            /\ \A p \in Tasks : pc'[p] = pc[p]]_vars

\* a publish was refused for its digest and the same (slug, version-string)
\* has been persisted since, icon included
C4_Witness ==
    \E e \in audit :
        /\ e.kind = "mismatch"
        /\ \E d \in DocsOf(e.c, e.Slug, e.Version) : d.Attachments = {"icon"}

\* C7: each persisted Version v has a persisted App in the same space with
\* v.slug = App.slug, v.type = App.type and v.editor = App.editor.
C7_VersionOfApp ==
    \A v \in vers :
        \E a \in apps :
            /\ a.space = v.space
            /\ a.Slug = v.Slug
            /\ a.Type = v.Type
            /\ a.Editor = v.Editor

\* a Version is persisted whose manifest declares another type and another
\* editor name than its App has
C7_Witness ==
    \E v \in vers :
        /\ Served(v.URL).mtype # v.Type
        /\ Served(v.URL).Editor # v.Editor

(***************************************************************************)
(* Editor tokens                                                           *)
(***************************************************************************)

tokenName == "editor-token"

\* MaxLen of tokenConfig
tokenMaxLen == 256

errUnknownEditor == "errUnknownEditor"
errUnauthorized == "errUnauthorized"
errMACInvalid == "errMACInvalid"
errMACExpired == "errMACExpired"
errMACTooLong == "errMACTooLong"

tokenConfig(secret) == [Name |-> tokenName, Key |-> secret, MaxLen |-> tokenMaxLen]

\* an authenticated message: the label and the key of its MAC, the message
\* and the last instant at which it is accepted
EncodeAuthMessage(config, maxAge, msg, t) ==
    [name |-> config.Name, key |-> config.Key, msg |-> msg, until |-> t + maxAge]

\* parse, check the MAC, reject a message that is too long or expired
DecodeAuthMessage(config, token, t) ==
    IF token.name # config.Name \/ token.key # config.Key
    THEN [err |-> errMACInvalid, msg |-> <<>>]
    ELSE IF Len(token.msg) > config.MaxLen THEN [err |-> errMACTooLong, msg |-> <<>>]
    ELSE IF t > token.until THEN [err |-> errMACExpired, msg |-> <<>>]
    ELSE [err |-> None, msg |-> token.msg]

\* GetEditorSecret: the secret of the line (or document) with that name
GetEditorSecret(reg, editorName) ==
    LET found == {e \in reg : e.Name = editorName}
    IN  IF found = {} THEN [err |-> errUnknownEditor, secret |-> <<>>]
        ELSE [err |-> None, secret |-> (CHOOSE e \in found : TRUE).Secret]

NoAuthMessage == [name |-> None, key |-> <<>>, msg |-> <<>>, until |-> 0]

GenerateEditorToken(reg, opts, t) ==
    LET s == GetEditorSecret(reg, opts.Editor)
    IN  IF s.err # None THEN [err |-> s.err, token |-> NoAuthMessage]
        ELSE [err |-> None,
              token |-> EncodeAuthMessage(tokenConfig(s.secret), opts.MaxAge,
                                          opts.Editor, t)]

\* variant: the scope is not looked at
scopeCoversAny(scope, appName) == TRUE

\* msgSplit[1] == "*" || strings.HasPrefix(appName, msgSplit[1])
scopeCovers(scope, appName) == scope = <<"*">> \/ HasSubAt(appName, scope, 1)

VerifyEditorToken(reg, editorName, appName, token, t) ==
    LET s == GetEditorSecret(reg, editorName)
        d == DecodeAuthMessage(tokenConfig(s.secret), token, t)
        msgSplit == SplitN(d.msg, <<":">>, 2)
    IN  IF s.err # None THEN s.err
        ELSE IF d.err # None THEN d.err
        ELSE IF Len(msgSplit) # 2 THEN errUnauthorized
        ELSE IF msgSplit[1] # editorName THEN errUnauthorized
        ELSE IF ~scopeCovers(msgSplit[2], appName) THEN errUnauthorized
        ELSE None

EdC == <<"c">>

\* the editor registry: a and b have a secret, c has none
SecretOf(name) == <<"secret">> \o name

TokenRegistry == {[Name |-> n, Secret |-> SecretOf(n)] : n \in {EdA, EdB}}

TokenEditors == {EdA, EdB, EdC}

Scopes == {<<"*">>, <<"n", "o", "t">>, SlugNotes, SlugChat, <<>>}

MaxAges == {1, 2}

\* no token issued yet
NoTokenInHand == [by |-> None, editor |-> <<>>, token |-> NoAuthMessage]

InitToken ==
    /\ vault = TokenRegistry
    /\ apps = {}
    /\ vers = {}
    /\ now = 0
    /\ audit = {}
    /\ pc = "call"
    /\ req = NoTokenInHand
    /\ call = NoRet
    /\ ret = NoRet

TokenTick ==
    /\ now < MaxTime
    /\ now' = now + 1
    /\ call' = NoRet
    /\ ret' = NoRet
    /\ UNCHANGED <<vault, apps, vers, pc, req, audit>>

\* the operator issues a token with GenerateEditorToken
TokenGenerate(editor, maxAge) ==
    LET r == GenerateEditorToken(vault, [Editor |-> editor, MaxAge |-> maxAge], now)
    IN  /\ call' = [op |-> "GenerateEditorToken", editorName |-> editor,
                    appName |-> <<>>]
        /\ ret' = [op |-> "GenerateEditorToken", err |-> r.err]
        /\ req' = IF r.err = None
                  THEN [by |-> "GenerateEditorToken", editor |-> editor, token |-> r.token]
                  ELSE req
        /\ UNCHANGED <<vault, apps, vers, now, pc, audit>>

\* the holder of an editor's secret encodes a message "name:scope" itself
TokenEncode(holder, name, scope, maxAge) ==
    /\ call' = [op |-> "EncodeAuthMessage", editorName |-> name, appName |-> <<>>]
    /\ ret' = [op |-> "EncodeAuthMessage", err |-> None]
    /\ req' = [by |-> "EncodeAuthMessage", editor |-> name,
               token |-> EncodeAuthMessage(tokenConfig(SecretOf(holder)), maxAge,
                                           name \o <<":">> \o scope, now)]
    /\ UNCHANGED <<vault, apps, vers, now, pc, audit>>

\* the token in hand is presented for an editor and an app
TokenVerify(editorName, appName) ==
    /\ req.by # None
    /\ call' = [op |-> "VerifyEditorToken", editorName |-> editorName,
                appName |-> appName]
    /\ ret' = [op |-> "VerifyEditorToken",
               err |-> VerifyEditorToken(vault, editorName, appName, req.token, now)]
    /\ UNCHANGED <<vault, apps, vers, now, pc, req, audit>>

NextToken ==
    \/ TokenTick
    \/ \E editor \in TokenEditors, maxAge \in MaxAges : TokenGenerate(editor, maxAge)
    \/ \E holder \in {EdA, EdB}, name \in {EdA, EdB}, scope \in Scopes,
          maxAge \in MaxAges : TokenEncode(holder, name, scope, maxAge)
    \/ \E editorName \in TokenEditors, appName \in {SlugNotes, SlugChat} :
          TokenVerify(editorName, appName)

SpecToken == InitToken /\ [][NextToken]_vars

\* VerifyEditorToken has just answered on the token in hand
Verified == ret.op = "VerifyEditorToken" /\ call.op = "VerifyEditorToken"

\* C11: a token produced by GenerateEditorToken for editor E with a positive
\* max age is accepted by VerifyEditorToken when it is presented for the
\* same editor E before its expiry.
C11_GeneratedTokenVerifies ==
    (/\ Verified
     /\ req.by = "GenerateEditorToken"
     /\ req.editor = call.editorName
     /\ now <= req.token.until) => ret.err = None

IsPrefix(prefix, str) ==
    /\ Len(prefix) <= Len(str)
    /\ \A i \in 1..Len(prefix) : prefix[i] = str[i]

\* the name and the scope a message carries, one field when it has no ":"
Embedded(msg) == SplitN(msg, <<":">>, 2)

editorForCouchdb(id, editor) ==
    [ID |-> id, Name |-> editor.name, SessionSalt |-> editor.sessionSalt]

\* CreateEditor, UpdateEditor and DeleteEditor return [err, vault]: the
\* error and the editors database after the call.  The revision UpdateEditor
\* and DeleteEditor pass is the one getEditor has just read.
CreateEditor(editor) ==
    IF getEditor(editor.name).err = None THEN [err |-> ErrEditorExists, vault |-> vault]
    ELSE IF \E d \in vault : d.ID = ToLower(editor.name)
         THEN [err |-> ErrConflict, vault |-> vault]
    ELSE [err |-> None,
          vault |-> vault \cup {editorForCouchdb(ToLower(editor.name), editor)}]

UpdateEditor(editor) ==
    LET e == getEditor(editor.name)
    IN  IF e.err # None THEN [err |-> e.err, vault |-> vault]
        ELSE [err |-> None,
              vault |-> (vault \ {e.doc}) \cup {editorForCouchdb(e.doc.ID, editor)}]

DeleteEditor(editor) ==
    LET e == getEditor(editor.name)
    IN  IF e.err # None THEN [err |-> e.err, vault |-> vault]
        ELSE [err |-> None, vault |-> vault \ {e.doc}]

VaultNames == {<<"a">>, <<"A">>, <<"b">>, <<"B">>}

VaultEditors == [name : VaultNames, sessionSalt : {"s1", "s2"}]

VaultSpace == "main"

VaultAppOptions == [Slug : {SlugNotes}, Editor : VaultNames, Type : {"webapp"}]

InitVault ==
    /\ vault = {}
    /\ apps = {}
    /\ vers = {}
    /\ now = 0
    /\ audit = {}
    /\ pc = "call"
    /\ req = Idle
    /\ call = NoRet
    /\ ret = NoRet

VaultCreateEditor(editor) ==
    /\ call' = [op |-> "CreateEditor", name |-> editor.name]
    /\ ret' = [op |-> "CreateEditor", err |-> CreateEditor(editor).err]
    /\ vault' = CreateEditor(editor).vault
    /\ UNCHANGED <<apps, vers, now, pc, req, audit>>

VaultUpdateEditor(editor) ==
    /\ call' = [op |-> "UpdateEditor", name |-> editor.name]
    /\ ret' = [op |-> "UpdateEditor", err |-> UpdateEditor(editor).err]
    /\ vault' = UpdateEditor(editor).vault
    /\ UNCHANGED <<apps, vers, now, pc, req, audit>>

VaultDeleteEditor(editor) ==
    /\ call' = [op |-> "DeleteEditor", name |-> editor.name]
    /\ ret' = [op |-> "DeleteEditor", err |-> DeleteEditor(editor).err]
    /\ vault' = DeleteEditor(editor).vault
    /\ UNCHANGED <<apps, vers, now, pc, req, audit>>

\* an editor of the vault registers an App
VaultCreateApp(opts) ==
    /\ GetEditor(opts.Editor).err = None
    /\ call' = [op |-> "CreateApp", name |-> opts.Editor]
    /\ ret' = [op |-> "CreateApp",
               err |-> CreateApp(VaultSpace, opts, GetEditor(opts.Editor).doc).err]
    /\ apps' = CreateApp(VaultSpace, opts, GetEditor(opts.Editor).doc).apps
    /\ UNCHANGED <<vault, vers, now, pc, req, audit>>

NextVault ==
    \/ \E editor \in VaultEditors : VaultCreateEditor(editor)
    \/ \E editor \in VaultEditors : VaultUpdateEditor(editor)
    \/ \E editor \in VaultEditors : VaultDeleteEditor(editor)
    \/ \E opts \in VaultAppOptions : VaultCreateApp(opts)

SpecVault == InitVault /\ [][NextVault]_vars

\* the records of the vault whose name is editorName up to letter case
SameName(editorName) == {e \in vault : ToLower(e.Name) = ToLower(editorName)}

\* C13: after any sequence of CreateEditor, UpdateEditor and DeleteEditor
\* calls the vault holds at most one editor record per lowercased name;
\* CreateEditor with a name that differs only in letter case from an
\* existing editor fails with EditorExists and leaves the vault unchanged,
\* and GetEditor finds an editor under any casing of its name.
C13_OneEditorPerLowercasedName ==
    /\ \A n \in VaultNames : Cardinality(SameName(n)) <= 1
    /\ \A editor \in VaultEditors :
          SameName(editor.name) # {} =>
              /\ CreateEditor(editor).err = ErrEditorExists
              /\ CreateEditor(editor).vault = vault
              /\ GetEditor(editor.name).err = None
              /\ GetEditor(editor.name).doc \in SameName(editor.name)
    /\ \A editor \in VaultEditors :
          SameName(editor.name) = {} => GetEditor(editor.name).err = ErrEditorNotFound

\* CreateEditor has just been refused for a name that is in the vault in
\* another casing only
C13_Witness ==
    /\ ret.op = "CreateEditor"
    /\ ret.err = ErrEditorExists
    /\ call.op = "CreateEditor"
    /\ SameName(call.name) # {}
    /\ \A e \in vault : e.Name # call.name

\* C14: DeleteEditor removes an editor only when no App references it; while
\* at least one App has editor == E, deleting E is refused and E stays in
\* the vault.
C14_DeleteRefusedWhileReferenced ==
    (/\ ret.op = "DeleteEditor"
     /\ call.op = "DeleteEditor"
     /\ \E a \in apps : ToLower(a.Editor) = ToLower(call.name)) =>
        /\ ret.err # None
        /\ SameName(call.name) # {}

(***************************************************************************)
(* CreateOrUpdateApp                                                       *)
(***************************************************************************)

\* IsValidApp of the App document
IsValidAppDoc(app) ==
    IF app.Name = <<>> \/ ~validAppName(app.Name) THEN ErrAppInvalid
    ELSE IF app.Editor = <<>> \/ app.Type \notin validAppTypes THEN ErrBadRequest
    ELSE None

\* FindApp(appName) on the apps database
FindAppNamed(appName) ==
    LET found == {a \in apps : a.Name = appName}
    IN  IF ~validAppName(appName) THEN [err |-> errBadAppName]
        ELSE IF found = {} THEN [err |-> ErrAppNotFound]
        ELSE [err |-> None, doc |-> CHOOSE a \in found : TRUE]

\* CreateOrUpdateApp(app, editor) at time t returns [err, apps]
CreateOrUpdateApp(app, editor, t) ==
    LET old == FindAppNamed(app.Name)
    IN  IF IsValidAppDoc(app) # None THEN [err |-> IsValidAppDoc(app), apps |-> apps]
        ELSE IF old.err \notin {None, ErrAppNotFound} THEN [err |-> old.err, apps |-> apps]
        ELSE IF old.err = ErrAppNotFound
        THEN IF \E d \in apps : d.ID = getAppID(app.Name)
             THEN [err |-> ErrConflict, apps |-> apps]
             ELSE [err |-> None,
                   apps |-> apps \cup
                       {[ID |-> getAppID(app.Name), Name |-> getAppID(app.Name),
                         Type |-> app.Type, Editor |-> editor.Name,
                         Category |-> app.Category,
                         CreatedAt |-> t, UpdatedAt |-> t]}]
        ELSE [err |-> None,
              apps |-> (apps \ {old.doc}) \cup
                  {[ID |-> old.doc.ID, Name |-> old.doc.Name,
                    Type |-> old.doc.Type, Editor |-> editor.Name,
                    Category |-> IF app.Category = "" THEN old.doc.Category
                                 ELSE app.Category,
                    CreatedAt |-> old.doc.CreatedAt, UpdatedAt |-> t]}]

AppDocs ==
    [Name : {SlugNotes, <<"1", "n">>}, Type : {"webapp", "konnector", "applet"},
     Editor : {EdA, <<>>}, Category : {"", "tools"}]

InitUpdate ==
    /\ vault = Editors
    /\ apps = {}
    /\ vers = {}
    /\ now = 0
    /\ audit = {}
    /\ pc = "call"
    /\ req = Idle
    /\ call = NoRet
    /\ ret = NoRet

UpdateTick ==
    /\ now < MaxTime
    /\ now' = now + 1
    /\ UNCHANGED <<vault, apps, vers, pc, req, audit, call, ret>>

\* the values given to an App by the call that created it
createdEvent(doc) ==
    [Name |-> doc.Name, Type |-> doc.Type, Editor |-> doc.Editor,
     CreatedAt |-> doc.CreatedAt]

UpdateCreateOrUpdateApp(app, editor) ==
    LET r == CreateOrUpdateApp(app, editor, now)
    IN  /\ call' = [op |-> "CreateOrUpdateApp", Name |-> app.Name,
                    editor |-> editor.Name]
        /\ ret' = [op |-> "CreateOrUpdateApp", err |-> r.err]
        /\ apps' = r.apps
        /\ audit' = audit \cup
              {createdEvent(d) : d \in {x \in r.apps : \A a \in apps : a.ID # x.ID}}
        /\ UNCHANGED <<vault, vers, now, pc, req>>

NextUpdate ==
    \/ UpdateTick
    \/ \E app \in AppDocs, editor \in vault : UpdateCreateOrUpdateApp(app, editor)

SpecUpdate == InitUpdate /\ [][NextUpdate]_vars

\* C15: once an App is created, its type and its editor never change: after
\* any sequence of CreateOrUpdateApp calls on the same app name (by any
\* editor), the stored App's type and editor equal the values set at
\* creation, as does its creation timestamp.
C15_TypeAndEditorImmutable ==
    \A e \in audit :
        \E a \in apps :
            /\ a.Name = e.Name
            /\ a.Type = e.Type
            /\ a.Editor = e.Editor
            /\ a.CreatedAt = e.CreatedAt

(***************************************************************************)
(* Spaces and virtual spaces at startup                                    *)
(***************************************************************************)

DefaultSpacePrefix == <<"_", "_", "d", "e", "f", "a", "u", "l", "t", "_", "_">>

SpaceMain == <<"m", "a", "i", "n">>
SpaceMainPadded == <<" ", "m", "a", "i", "n">>
SpacePartner == <<"p", "1">>
SpaceUpper == <<"M">>

\* strings.TrimSpace
RECURSIVE TrimSpace(_)
TrimSpace(str) ==
    IF str = <<>> THEN str
    ELSE IF Head(str) = " " THEN TrimSpace(Tail(str))
    ELSE IF str[Len(str)] = " " THEN TrimSpace(SubSeq(str, 1, Len(str) - 1))
    ELSE str

SpaceFirstChars == {"a", "i", "m", "n", "p"}
SpaceNextChars == SpaceFirstChars \cup {"1", "_", "-"}

\* validSpaceReg = ^[a-z]+[a-z0-9\_\-]*$
validSpace(name) ==
    /\ name # <<>>
    /\ name[1] \in SpaceFirstChars
    /\ \A i \in 2..Len(name) : name[i] \in SpaceNextChars

\* base.Prefix
Prefix(spaceName) == IF spaceName = <<>> THEN DefaultSpacePrefix ELSE spaceName

errSpaceInvalid == "Space contains invalid characters"
errSpaceRegistered == "Space already registered"
errSpaceOverlap == "defined as a space and a virtual space"

\* checkSpaceVspaceOverlap(spaceNames, virtual_spaces)
checkSpaceVspaceOverlap(spaceNames, vspaces) ==
    \E i \in 1..Len(spaceNames) : spaceNames[i] \in vspaces

\* RegisterSpace(name) on the map of registered spaces; returns [err, spaces]
RegisterSpace(spaces, spaceName) ==
    LET trimmed == TrimSpace(spaceName)
        name == IF trimmed = DefaultSpacePrefix THEN <<>> ELSE trimmed
    IN  IF trimmed # DefaultSpacePrefix /\ ~validSpace(trimmed)
        THEN [err |-> errSpaceInvalid, spaces |-> spaces]
        ELSE IF name \in spaces
        THEN [err |-> errSpaceRegistered, spaces |-> spaces]
        ELSE [err |-> None, spaces |-> spaces \cup {name}]

\* the loop of PrepareSpaces from the i-th name on; returns [err, spaces, storage]
RECURSIVE registerFrom(_, _, _, _)
registerFrom(spaceNames, i, spaces, storage) ==
    IF i > Len(spaceNames) THEN [err |-> None, spaces |-> spaces, storage |-> storage]
    ELSE LET trimmed == TrimSpace(spaceNames[i])
             prefix == Prefix(trimmed)
             spaceName == IF prefix = DefaultSpacePrefix THEN <<>> ELSE trimmed
             r == RegisterSpace(spaces, spaceName)
         IN  IF r.err # None
             THEN [err |-> r.err, spaces |-> r.spaces, storage |-> storage]
             ELSE registerFrom(spaceNames, i + 1, r.spaces, storage \cup {prefix})

\* PrepareSpaces() under a configuration; returns [err, spaces, storage]
PrepareSpaces(config, storage) ==
    LET spaceNames == IF Len(config.spaces) = 0 THEN <<(<<>>)>> ELSE config.spaces
    IN  IF checkSpaceVspaceOverlap(spaceNames, config.virtual_spaces)
        THEN [err |-> errSpaceOverlap, spaces |-> {}, storage |-> storage]
        ELSE registerFrom(spaceNames, 1, {}, storage)

MaxSpaces == 2
ConfigNames == {SpaceMain, SpaceMainPadded, SpacePartner, SpaceUpper, DefaultSpacePrefix}
Configs ==
    [spaces : UNION {[1..n -> ConfigNames] : n \in 0..MaxSpaces},
     virtual_spaces : SUBSET {SpaceMain, SpacePartner}]

InitSpaces ==
    /\ vault = {}
    /\ apps = {}
    /\ vers = {}
    /\ now = 0
    /\ pc = "start"
    /\ req \in Configs
    /\ audit = [Spaces |-> {}, Storage |-> {}]
    /\ call = NoRet
    /\ ret = NoRet

SpacesPrepare ==
    LET r == PrepareSpaces(req, audit.Storage)
    IN  /\ pc = "start"
        /\ pc' = "serving"
        /\ call' = [op |-> "PrepareSpaces"]
        /\ ret' = [op |-> "PrepareSpaces", err |-> r.err]
        /\ audit' = [Spaces |-> r.spaces, Storage |-> r.storage]
        /\ UNCHANGED <<vault, apps, vers, now, req>>

NextSpaces == SpacesPrepare

SpecSpaces == InitSpaces /\ [][NextSpaces]_vars

\* C16: after PrepareSpaces, no name is registered both as a space and as a
\* virtual space; when the configuration declares a name as both,
\* PrepareSpaces fails and no space is registered.
C16_SpaceNeverVirtual ==
    ret.op = "PrepareSpaces" =>
        /\ audit.Spaces \cap req.virtual_spaces = {}
        /\ (\E i \in 1..Len(req.spaces) : req.spaces[i] \in req.virtual_spaces)
               => ret.err # None /\ audit.Spaces = {}

(***************************************************************************)
(* Virtual spaces: overrides and regenerated tarballs                      *)
(***************************************************************************)

\* base.Config.VirtualSpaces: the virtual space partner has main as source
VirtualName == "partner"
VirtualSource == "main"

\* a tar archive is the sequence of its entries
TypeReg == "TypeReg"
TypeDir == "TypeDir"
TypeSymlink == "TypeSymlink"

TarEntry(typeflag, name, content) ==
    [Typeflag |-> typeflag, Name |-> name, Content |-> content]

\* the manifest of the published archives, as the JSON object it holds; its
\* version is the one the manifest checks of downloadVersion accept
NotesManifest(version) ==
    [name |-> "Notes", slug |-> SlugNotes, icon |-> "icon.svg",
     version |-> SplitN(version, <<"-">>, 2)[1]]

\* an archive whose files sit at the root, and one whose files all sit in
\* the directory notes: downloadVersion accepts both and records the
\* directory as the tar prefix of the second
FlatTarball(manifest) ==
    <<TarEntry(TypeDir, "assets", ""),
      TarEntry(TypeReg, "manifest.webapp", manifest),
      TarEntry(TypeReg, "icon.svg", "icon-bytes"),
      TarEntry(TypeSymlink, "latest", ""),
      TarEntry(TypeReg, "index.html", "html-bytes")>>

PrefixedTarball(manifest) ==
    <<TarEntry(TypeDir, "notes", ""),
      TarEntry(TypeReg, "notes/manifest.webapp", manifest),
      TarEntry(TypeReg, "notes/icon.svg", "icon-bytes"),
      TarEntry(TypeReg, "notes/index.html", "html-bytes")>>

\* sha-256 of a file, hex encoded: an injective map from contents to digests
HexSha256(file) == <<"sha256", file>>

\* the revision the document store gives to a document it holds
StoreRev == <<"1", "-", "r", "e", "v">>

\* the Version downloadVersion assembles from an archive, stored with the
\* archive as its attachment
SourceVersion(version, tarball, tarPrefix) ==
    [space |-> VirtualSource, ID |-> getVersionID(SlugNotes, version),
     Rev |-> StoreRev,
     Slug |-> SlugNotes, Version |-> version, Type |-> "webapp", Editor |-> EdA,
     Manifest |-> NotesManifest(version), CreatedAt |-> 0,
     URL |-> [Host |-> "example.org", Path |-> <<"notes.tar.gz">>],
     Sha256 |-> HexSha256(tarball), Size |-> Len(tarball),
     TarPrefix |-> tarPrefix, AttachmentReferences |-> <<>>,
     tarball |-> tarball]

SourceVersions ==
    {SourceVersion(v, FlatTarball(NotesManifest(v)), "") : v \in {V100, V200da}}
        \cup {SourceVersion(V101, PrefixedTarball(NotesManifest(V101)), "/notes")}

\* an override document is a map from keys to values
NoOverwrite == <<>>
setKey(doc, key, value) ==
    [k \in DOMAIN doc \cup {key} |-> IF k = key THEN value ELSE doc[k]]
\* variant: delete drops every key of the map
deleteEveryKey(doc, key) == NoOverwrite
deleteKey(doc, key) == [k \in DOMAIN doc \ {key} |-> doc[k]]

\* findOverwrite(db, appSlug): returns [err, doc]
findOverwrite(db, appSlug) ==
    IF ~validSlug(appSlug) \/ appSlug = <<>> THEN [err |-> ErrAppSlugInvalid]
    ELSE IF appSlug \in DOMAIN db THEN [err |-> None, doc |-> db[appSlug]]
    ELSE [err |-> None, doc |-> NoOverwrite]

\* the entry generateOverwrittenTarball writes for an input entry
overwrittenEntry(header, iconFilename, manifestFilename, overwrite) ==
    IF header.Typeflag = TypeReg /\ header.Name = iconFilename
           /\ "icon" \in DOMAIN overwrite
    THEN [header EXCEPT !.Content = overwrite["icon"][2]]
    ELSE IF header.Typeflag = TypeReg /\ header.Name = manifestFilename
           /\ header.Name # iconFilename /\ "name" \in DOMAIN overwrite
    THEN [header EXCEPT !.Content = [@ EXCEPT !.name = overwrite["name"]]]
    ELSE header

isRegOrDir(header) == header.Typeflag \in {TypeReg, TypeDir}

\* the JSON json.Marshal gives for a nil manifest
Null == [json |-> "null"]

\* generateOverwrittenTarball(version, overwrite, input): returns the file
\* written, the manifest decoded (nil when no manifest entry was rewritten)
\* and the icon
generateOverwrittenTarball(version, overwrite, input) ==
    LET iconFilename == version.Manifest.icon
        manifestFilename == "manifest." \o version.Type
        kept == SelectSeq(input, isRegOrDir)
        rewritten == {i \in 1..Len(kept) :
                         /\ kept[i].Typeflag = TypeReg
                         /\ kept[i].Name = manifestFilename
                         /\ kept[i].Name # iconFilename
                         /\ "name" \in DOMAIN overwrite}
    IN  [err |-> None,
         file |-> [i \in 1..Len(kept) |->
                      overwrittenEntry(kept[i], iconFilename, manifestFilename,
                                       overwrite)],
         manifest |-> IF rewritten = {} THEN Null
                      ELSE [kept[CHOOSE i \in rewritten :
                                     \A j \in rewritten : j <= i].Content
                               EXCEPT !.name = overwrite["name"]],
         icon |-> ""]

\* versionOverwrittenAlreadyProcessed(versions, version)
versionOverwrittenAlreadyProcessed(versions, version) ==
    \E i \in 1..Len(versions) : versions[i].Version = version.Version

\* the rows of the versions of an app, in the order of their identifiers
RowOrder == <<V100, V100da, V101, V200da>>

\* the loop of FindLatestVersion over the rows from the i-th on
RECURSIVE scanFrom(_, _, _, _)
scanFrom(rows, i, ch, latest) ==
    IF i > Len(RowOrder) THEN latest
    ELSE CHOOSE r \in
             {scanFrom(rows, i + 1, ch, l) :
                 l \in {IF \E d \in rows : d.Version = RowOrder[i]
                        THEN scanRow(CHOOSE d \in rows : d.Version = RowOrder[i],
                                     ch, latest)
                        ELSE latest}} : TRUE

\* FindLatestVersion(s, appSlug, channel) on the versions database db
FindLatestIn(db, c, appSlug, ch) ==
    CHOOSE r \in {latestOrNotFound(scanFrom(rows, 1, ch, <<>>)) :
                     rows \in {{d \in db : d.space = c /\ d.Slug = appSlug}}} : TRUE

\* findOverwrittenVersion(s, version): <<>> for nil, <<doc>> otherwise
findOverwrittenVersion(db, s, version) ==
    IF \E d \in db : d.space = s /\ d.ID = version.ID
    THEN <<CHOOSE d \in db : d.space = s /\ d.ID = version.ID>>
    ELSE <<>>

StorageObject(prefix, name, content) ==
    [prefix |-> prefix, name |-> name, content |-> content]

\* the Version document regenerateOverwrittenTarballs puts in the virtual
\* space for lastVersion and the file generated from it
overwrittenVersion(lastVersion, g) ==
    [lastVersion EXCEPT
        !.space = VirtualName,
        !.AttachmentReferences =
            IF g.icon # "" THEN [tarball |-> HexSha256(g.tarball), icon |-> g.icon]
            ELSE [tarball |-> HexSha256(g.tarball)],
        !.Size = Len(g.tarball),
        !.Sha256 = HexSha256(g.tarball),
        !.URL = [@ EXCEPT !.Path = <<VirtualName>> \o @],
        !.Manifest = g.manifest,
        !.tarball = <<>>]

\* a failure of the environment during one call: the place where it strikes
\* and the channel whose iteration it strikes in
NoFault == [at |-> None, channel |-> Stable]
FaultPoints ==
    {"db.Put(overwrite)", "getOriginalTarball", "inputTar.Next",
     "Storage.Create", "Storage.Remove", "db.Put(version)"}
Faults == {NoFault} \cup [at : FaultPoints, channel : {Stable, Dev}]
strikes(fault, at, channel) == fault.at = at /\ fault.channel = channel
ErrIO == "input/output error"

\* the temporary file generateOverwrittenTarball creates for a version, and
\* the empty name it returns when it created none
TempFile(version) == <<version.Slug, version.Version>>
NoFile == <<>>

\* variant: the removal of the file is registered only when the generation
\* succeeded
deferRemoveOnSuccess(st, g) ==
    [st EXCEPT !.deferred = IF g.file # NoFile /\ g.err = None
                            THEN @ \cup {g.file} ELSE @]
\* the deferred os.Remove regenerateOverwrittenTarballs registers for the
\* file generateOverwrittenTarball returned, before it looks at the error
deferRemove(st, g) ==
    [st EXCEPT !.deferred = IF g.file # NoFile THEN @ \cup {g.file} ELSE @]

\* variant: the tarball of the existing document is left in the storage
keepStale(st, existing, hash) == {}
\* the object of the existing document that the loop removes: the tarball
\* it refers to, when the digest of the new one differs
staleTarball(st, existing, hash) ==
    IF existing # <<>>
          /\ "tarball" \in DOMAIN existing[1].AttachmentReferences
          /\ existing[1].AttachmentReferences["tarball"] # hash
    THEN {o \in st.storage :
             /\ o.prefix = VirtualName
             /\ o.name = existing[1].AttachmentReferences["tarball"]}
    ELSE {}

\* the end of an iteration of the loop of regenerateOverwrittenTarballs: the
\* file g generated from lastVersion is stored, the tarball of the existing
\* document is removed when it differs, the new document is put
putOverwritten(st, lastVersion, g, existing, fault, channel) ==
    LET hash == HexSha256(g.tarball)
        removes == existing # <<>>
                      /\ "tarball" \in DOMAIN existing[1].AttachmentReferences
                      /\ existing[1].AttachmentReferences["tarball"] # hash
        stored == st.storage \cup {StorageObject(VirtualName, hash, g.tarball)}
    IN  IF strikes(fault, "Storage.Create", channel)
        THEN [st EXCEPT !.err = ErrIO]
        ELSE IF removes /\ strikes(fault, "Storage.Remove", channel)
        THEN [st EXCEPT !.err = ErrIO, !.storage = stored]
        ELSE IF strikes(fault, "db.Put(version)", channel)
        THEN [st EXCEPT !.err = ErrIO,
                        !.storage = stored \ staleTarball(st, existing, hash),
                        !.removed = @ \cup staleTarball(st, existing, hash)]
        ELSE [st EXCEPT
                 !.vers = (@ \ Range(existing))
                              \cup {overwrittenVersion(lastVersion, g)},
                 !.storage = stored \ staleTarball(st, existing, hash),
                 !.removed = @ \cup staleTarball(st, existing, hash),
                 !.regenerated = Append(@, lastVersion)]

\* the call of generateOverwrittenTarball in the loop: the file it leaves
\* on the disk, and the reading of the archive that can fail after the
\* file was created
generateFile(version, overwrite, input, fault, channel) ==
    IF strikes(fault, "inputTar.Next", channel)
    THEN [err |-> ErrIO, file |-> TempFile(version), tarball |-> <<>>,
          manifest |-> Null, icon |-> ""]
    ELSE CHOOSE r \in
            {[err |-> g.err, file |-> TempFile(version), tarball |-> g.file,
              manifest |-> g.manifest, icon |-> g.icon] :
                g \in {generateOverwrittenTarball(version, overwrite, input)}} : TRUE

\* the loop body of regenerateOverwrittenTarballs from the return of
\* generateOverwrittenTarball on: the removal of the file is deferred, then
\* the error is looked at
storeGenerated(st, lastVersion, g, fault, channel) ==
    CHOOSE n \in
        {IF g.err # None THEN [st1 EXCEPT !.err = g.err]
         ELSE putOverwritten(st1, lastVersion, g, existing, fault, channel) :
            st1 \in {[deferRemove(st, g) EXCEPT !.tmp = @ \cup {g.file}]},
            existing \in {findOverwrittenVersion(st.vers, VirtualName,
                                                 lastVersion)}} : TRUE

\* the loop body of regenerateOverwrittenTarballs for a latest version that
\* was not processed yet
regenerateVersion(st, lastVersion, overwrite, fault, channel) ==
    IF strikes(fault, "getOriginalTarball", channel)
    THEN [st EXCEPT !.err = ErrIO]
    ELSE CHOOSE n \in
            {storeGenerated(st, lastVersion, g, fault, channel) :
                g \in {generateFile(lastVersion, overwrite, lastVersion.tarball,
                                    fault, channel)}} : TRUE

\* one iteration of the loop of regenerateOverwrittenTarballs over the
\* channels; st is [err, vers, storage, regenerated, tmp, deferred, removed]
regenerateChannel(st, appSlug, overwrite, channel, fault) ==
    IF st.err # None THEN st
    ELSE CHOOSE r \in
        {IF last.err # None THEN [st EXCEPT !.err = last.err]
         ELSE IF versionOverwrittenAlreadyProcessed(st.regenerated, last.latest[1])
         THEN st
         ELSE regenerateVersion(st, last.latest[1], overwrite, fault, channel) :
            last \in {FindLatestIn(st.vers, VirtualSource, appSlug, channel)}} : TRUE

putOverwrite(db, appSlug, doc) ==
    [k \in DOMAIN db \cup {appSlug} |-> IF k = appSlug THEN doc ELSE db[k]]

\* the record of a call in which regenerateOverwrittenTarballs did not run
NotRun == "not run"

unchangedVirtual(err) ==
    [err |-> err, overrides |-> audit.overrides, assets |-> audit.assets,
     vers |-> vers, storage |-> audit.storage, tmp |-> audit.tmp,
     upsert |-> None, regenerate |-> NotRun, created |-> {}, removed |-> {}]

\* the end of an operation on the virtual space, r being
\* [err, overrides, assets, vers, storage, tmp] and, for the record of the
\* call, the error of the upsert of the override document, the error of
\* regenerateOverwrittenTarballs, the temporary files created and the
\* objects removed from the storage
applyVirtual(op, appSlug, r) ==
    /\ call' = [op |-> op, Slug |-> appSlug]
    /\ ret' = [op |-> op, err |-> r.err, upsert |-> r.upsert,
               regenerate |-> r.regenerate,
               created |-> r.created, removed |-> r.removed]
    /\ vers' = r.vers
    /\ audit' = [overrides |-> r.overrides, assets |-> r.assets,
                 storage |-> r.storage, tmp |-> r.tmp]
    /\ UNCHANGED <<vault, apps, now, pc, req>>

\* regenerateOverwrittenTarballs(virtualSpaceName, appSlug), called at the
\* end of the operation op that has left the override documents db; the
\* files whose removal was deferred are removed when it returns; perr is
\* the error the caller returns when the regeneration has none
regenerateOverwrittenTarballs(op, appSlug, db, assets, fault, perr) ==
    LET o == findOverwrite(db, appSlug)
        st0 == [err |-> None, vers |-> vers, storage |-> audit.storage,
                regenerated |-> <<>>, tmp |-> audit.tmp, deferred |-> {},
                removed |-> {}]
    IN  IF o.err # None
        THEN applyVirtual(op, appSlug,
                 [unchangedVirtual(o.err) EXCEPT !.overrides = db, !.assets = assets,
                                                 !.upsert = perr,
                                                 !.regenerate = o.err])
        ELSE \E st1 \in {regenerateChannel(st0, appSlug, o.doc, Stable, fault)} :
             \E st2 \in {regenerateChannel(st1, appSlug, o.doc, Beta, fault)} :
             \E st3 \in {regenerateChannel(st2, appSlug, o.doc, Dev, fault)} :
                 applyVirtual(op, appSlug,
                     [err |-> IF st3.err # None THEN st3.err ELSE perr,
                      overrides |-> db, assets |-> assets,
                      vers |-> st3.vers, storage |-> st3.storage,
                      tmp |-> st3.tmp \ st3.deferred,
                      upsert |-> perr,
                      regenerate |-> st3.err,
                      created |-> st3.tmp \ audit.tmp,
                      removed |-> st3.removed])

\* OverwriteAppName(virtualSpaceName, appSlug, newName)
OverwriteAppName(appSlug, newName, fault) ==
    LET o == findOverwrite(audit.overrides, appSlug)
    IN  IF o.err # None
        THEN applyVirtual("OverwriteAppName", appSlug, unchangedVirtual(o.err))
        ELSE IF fault.at = "db.Put(overwrite)"
        THEN applyVirtual("OverwriteAppName", appSlug,
                          [unchangedVirtual(ErrIO) EXCEPT !.upsert = ErrIO])
        ELSE regenerateOverwrittenTarballs("OverwriteAppName", appSlug,
                 putOverwrite(audit.overrides, appSlug, setKey(o.doc, "name", newName)),
                 audit.assets, fault, None)

\* OverwriteAppIcon(virtualSpaceName, appSlug, file): the error of the put
\* of the override document is looked at after the regeneration only
OverwriteAppIcon(appSlug, file, fault) ==
    LET o == findOverwrite(audit.overrides, appSlug)
    IN  IF o.err # None
        THEN applyVirtual("OverwriteAppIcon", appSlug, unchangedVirtual(o.err))
        ELSE IF fault.at = "db.Put(overwrite)"
        THEN regenerateOverwrittenTarballs("OverwriteAppIcon", appSlug,
                 audit.overrides, audit.assets \cup {HexSha256(file)}, fault, ErrIO)
        ELSE regenerateOverwrittenTarballs("OverwriteAppIcon", appSlug,
                 putOverwrite(audit.overrides, appSlug,
                              setKey(o.doc, "icon", HexSha256(file))),
                 audit.assets \cup {HexSha256(file)}, fault, None)

\* ActivateMaintenanceVirtualSpace(virtualSpaceName, appSlug, opts)
ActivateMaintenanceVirtualSpace(appSlug, opts) ==
    LET o == findOverwrite(audit.overrides, appSlug)
    IN  IF o.err # None THEN unchangedVirtual(o.err)
        ELSE [unchangedVirtual(None) EXCEPT
                 !.overrides =
                     putOverwrite(audit.overrides, appSlug,
                                  setKey(setKey(o.doc, "maintenance_activated", TRUE),
                                         "maintenance_options", opts))]

\* DeactivateMaintenanceVirtualSpace(virtualSpaceName, appSlug)
DeactivateMaintenanceVirtualSpace(appSlug) ==
    LET o == findOverwrite(audit.overrides, appSlug)
    IN  IF o.err # None THEN unchangedVirtual(o.err)
        ELSE [unchangedVirtual(None) EXCEPT
                 !.overrides =
                     putOverwrite(audit.overrides, appSlug,
                                  deleteKey(deleteKey(o.doc, "maintenance_activated"),
                                            "maintenance_options"))]

VirtualSlugs == {SlugNotes, <<"N">>}
NewNames == {"Partner Notes", "Notes+"}
IconFiles == {"partner-icon-bytes"}
MaintenanceOptionsSet == {[flag_infra_maintenance |-> TRUE]}

InitVirtual ==
    /\ vault = {}
    /\ apps = {}
    /\ vers = {}
    /\ now = 0
    /\ pc = "call"
    /\ req = Idle
    /\ audit = [overrides |-> <<>>, assets |-> {}, storage |-> {}, tmp |-> {}]
    /\ call = NoRet
    /\ ret = NoRet

\* a publish in the source space: CreateVersion of a downloaded version
VirtualCreateVersion(ver) ==
    /\ call' = [op |-> "CreateVersion", Slug |-> ver.Slug, Version |-> ver.Version]
    /\ IF FindVersion(VirtualSource, ver.Slug, ver.Version).err = None
       THEN /\ ret' = [op |-> "CreateVersion", err |-> ErrVersionAlreadyExists]
            /\ vers' = vers
       ELSE /\ ret' = [op |-> "CreateVersion", err |-> None]
            /\ vers' = vers \cup {ver}
    /\ UNCHANGED <<vault, apps, now, pc, req, audit>>

VirtualActivateMaintenance(appSlug, opts) ==
    applyVirtual("ActivateMaintenanceVirtualSpace", appSlug,
                 ActivateMaintenanceVirtualSpace(appSlug, opts))

VirtualDeactivateMaintenance(appSlug) ==
    applyVirtual("DeactivateMaintenanceVirtualSpace", appSlug,
                 DeactivateMaintenanceVirtualSpace(appSlug))

NextVirtual ==
    \/ \E ver \in SourceVersions : VirtualCreateVersion(ver)
    \/ \E appSlug \in VirtualSlugs, newName \in NewNames :
          OverwriteAppName(appSlug, newName, NoFault)
    \/ \E appSlug \in VirtualSlugs, file \in IconFiles :
          OverwriteAppIcon(appSlug, file, NoFault)
    \/ \E appSlug \in VirtualSlugs, opts \in MaintenanceOptionsSet :
          VirtualActivateMaintenance(appSlug, opts)
    \/ \E appSlug \in VirtualSlugs : VirtualDeactivateMaintenance(appSlug)

SpecVirtual == InitVirtual /\ [][NextVirtual]_vars

RegeneratedOf(appSlug, channel) ==
    {d \in vers : /\ d.space = VirtualName
                  /\ d.Slug = appSlug
                  /\ getVersionChannel(d.Version) = channel}

\* C17: after any sequence of publishes to the source space and override
\* mutations (OverwriteAppName, OverwriteAppIcon) on a virtual space, the
\* version store of the virtual space holds at most one regenerated Version
\* per (app slug, channel).
C17_OneRegeneratedPerChannel ==
    \A appSlug \in VirtualSlugs, channel \in Channels :
        Cardinality(RegeneratedOf(appSlug, channel)) <= 1

\* the names under which the walk of downloadVersion finds the manifest of
\* the published archives
ManifestNames == {"manifest.webapp", "notes/manifest.webapp"}
IconNames == {"icon.svg", "notes/icon.svg"}

OverwriteOf(appSlug) ==
    IF appSlug \in DOMAIN audit.overrides THEN audit.overrides[appSlug]
    ELSE NoOverwrite

\* output is input with the name of its manifest set to n and every other
\* regular file and directory as it was (the icon file set aside when the
\* app has an icon override)
RenamedCopy(input, output, n, iconOverwritten) ==
    LET kept == SelectSeq(input, isRegOrDir)
    IN  /\ Len(output) = Len(kept)
        /\ \A i \in 1..Len(kept) :
              IF kept[i].Name \in ManifestNames
              THEN /\ output[i].Name = kept[i].Name
                   /\ output[i].Typeflag = kept[i].Typeflag
                   /\ output[i].Content = [kept[i].Content EXCEPT !.name = n]
              ELSE IF kept[i].Name \in IconNames /\ iconOverwritten
              THEN output[i].Name = kept[i].Name
              ELSE output[i] = kept[i]

\* the archive stored in the virtual space for a version of the source space
StoredFor(version) ==
    {o.content : o \in {x \in audit.storage :
        /\ x.prefix = VirtualName
        /\ \E d \in vers : /\ d.space = VirtualName
                           /\ d.ID = version.ID
                           /\ "tarball" \in DOMAIN d.AttachmentReferences
                           /\ d.AttachmentReferences["tarball"] = x.name}}

\* C18: after a successful OverwriteAppName(V, slug, n), for each channel's
\* latest version in the source space and for every source archive accepted
\* at publish (with or without a tar prefix), the manifest file inside the
\* regenerated archive stored in V has its name field equal to n, and every
\* other regular-file and directory entry is copied unchanged.
C18_ManifestRenamed ==
    (ret.op = "OverwriteAppName" /\ ret.err = None) =>
        \A channel \in Channels :
            \A last \in {FindLatestIn(vers, VirtualSource, call.Slug, channel)} :
                last.err = None =>
                    /\ StoredFor(last.latest[1]) # {}
                    /\ \A file \in StoredFor(last.latest[1]) :
                          RenamedCopy(last.latest[1].tarball, file,
                                      OverwriteOf(call.Slug)["name"],
                                      "icon" \in DOMAIN OverwriteOf(call.Slug))

MaintenanceOps ==
    {"ActivateMaintenanceVirtualSpace", "DeactivateMaintenanceVirtualSpace"}
MaintenanceFields == {"maintenance_activated", "maintenance_options"}

OtherFields(doc) == [k \in DOMAIN doc \ MaintenanceFields |-> doc[k]]

\* C19: ActivateMaintenanceVirtualSpace and DeactivateMaintenanceVirtualSpace
\* change only the two maintenance fields of the app's override document:
\* the name and icon overrides are left unchanged, no tarball is
\* regenerated, and no Version document or stored object in the virtual
\* space is created, changed or removed.
C19_MaintenanceFrame ==
    [][call'.op \in MaintenanceOps =>
          /\ vers' = vers
          /\ audit'.storage = audit.storage
          /\ audit'.assets = audit.assets
          /\ \A appSlug \in VirtualSlugs :
                IF appSlug = call'.Slug
                THEN (appSlug \in DOMAIN audit'.overrides
                          => OtherFields(audit'.overrides[appSlug])
                                 = OtherFields(OverwriteOf(appSlug)))
                     /\ (appSlug \notin DOMAIN audit'.overrides
                          => appSlug \notin DOMAIN audit.overrides)
                ELSE (appSlug \in DOMAIN audit'.overrides)
                         = (appSlug \in DOMAIN audit.overrides)
                     /\ (appSlug \in DOMAIN audit.overrides
                          => audit'.overrides[appSlug] = audit.overrides[appSlug])]_vars

\* the maintenance of an app with a name override, an icon override and
\* regenerated versions has just been deactivated
C19_Witness ==
    /\ call.op = "DeactivateMaintenanceVirtualSpace"
    /\ ret.err = None
    /\ DOMAIN OverwriteOf(call.Slug) = {"name", "icon"}
    /\ \E d \in vers : d.space = VirtualName /\ d.Slug = call.Slug
    /\ \E o \in audit.storage : o.prefix = VirtualName

(***************************************************************************)
(* The caches of the latest versions and of the version lists              *)
(***************************************************************************)

\* base.DefaultCacheTTL, in ticks of the clock
CacheTTL == 2

NoCache == <<>>

\* Cache.Get: <<>> on a miss, <<value>> on a hit
cacheGet(cache, key, t) ==
    IF key \in DOMAIN cache /\ t < cache[key].until THEN <<cache[key].value>>
    ELSE <<>>

\* Cache.Add
cacheAdd(cache, key, value, t) ==
    [k \in DOMAIN cache \cup {key} |->
        IF k = key THEN [value |-> value, until |-> t + CacheTTL] ELSE cache[k]]

\* the versions of the rows once sorted: RowOrder lists the versions in the
\* order of isVersionLess
sortedVersions(rows) ==
    SelectSeq(RowOrder, LAMBDA v : \E d \in rows : d.Version = v)

\* FindAppVersions(appSlug) on the versions database db
FindAppVersionsIn(db, c, appSlug) ==
    LET allVersions == sortedVersions({d \in db : d.space = c /\ d.Slug = appSlug})
    IN  [Stable |-> SelectSeq(allVersions,
                        LAMBDA v : getVersionChannel(v) = Stable),
         Beta |-> SelectSeq(allVersions,
                        LAMBDA v : getVersionChannel(v) \in {Stable, Beta}),
         Dev |-> allVersions]

CacheSpace == "main"
CacheChannels == {Stable, Dev}

\* the app notes of the editor a is registered; its versions are published
\* from the archive of the first URL
CacheAppOptions == [Slug |-> SlugNotes, Editor |-> EdA, Type |-> "webapp"]
CacheRequestOptions == {o \in SeqRequestOptions : o.URL = 1}

InitCache ==
    /\ vault = Editors
    /\ now = 0
    /\ apps = {newApp(CacheSpace, CacheAppOptions, CHOOSE e \in Editors : e.Name = EdA)}
    /\ vers = {}
    /\ audit = [latest |-> NoCache, list |-> NoCache]
    /\ pc = "call"
    /\ req = Idle
    /\ call = NoRet
    /\ ret = NoRet

CacheTick ==
    /\ now < MaxTime
    /\ now' = now + 1
    /\ UNCHANGED <<vault, apps, vers, pc, req, audit, call, ret>>

\* FindLatestVersion read through the cache of the latest versions
CachedFindLatestVersion(c, appSlug, channel) ==
    LET key == <<c, appSlug, channel>>
        hit == cacheGet(audit.latest, key, now)
        r == FindLatestIn(vers, c, appSlug, channel)
    IN  /\ call' = [op |-> "FindLatestVersion", c |-> c, Slug |-> appSlug,
                    channel |-> channel]
        /\ IF hit # <<>>
           THEN /\ ret' = [op |-> "FindLatestVersion", err |-> None, latest |-> hit[1]]
                /\ audit' = audit
           ELSE /\ ret' = r
                /\ audit' = IF r.err = None
                            THEN [audit EXCEPT !.latest = cacheAdd(@, key, r.latest, now)]
                            ELSE audit
        /\ UNCHANGED <<vault, apps, vers, now, pc, req>>

\* FindAppVersions read through the cache of the version lists
CachedFindAppVersions(c, appSlug) ==
    LET key == <<c, appSlug>>
        hit == cacheGet(audit.list, key, now)
        r == FindAppVersionsIn(vers, c, appSlug)
    IN  /\ call' = [op |-> "FindAppVersions", c |-> c, Slug |-> appSlug]
        /\ IF hit # <<>>
           THEN /\ ret' = [op |-> "FindAppVersions", err |-> None, versions |-> hit[1]]
                /\ audit' = audit
           ELSE /\ ret' = [op |-> "FindAppVersions", err |-> None, versions |-> r]
                /\ audit' = [audit EXCEPT !.list = cacheAdd(@, key, r, now)]
        /\ UNCHANGED <<vault, apps, vers, now, pc, req>>

NextCache ==
    \/ CacheTick
    \/ \E ver \in Downloaded(CacheRequestOptions, now) :
          \E app \in {a \in apps : a.space = CacheSpace} :
              SeqCreateVersion(CacheSpace, ver, app)
    \/ \E channel \in CacheChannels :
          CachedFindLatestVersion(CacheSpace, SlugNotes, channel)
    \/ CachedFindAppVersions(CacheSpace, SlugNotes)

SpecCache == InitCache /\ [][NextCache]_vars

LiveKeys(cache) == {key \in DOMAIN cache : now < cache[key].until}

Path(abs, parts) == [abs |-> abs, parts |-> parts]
EmptyPath == Path(FALSE, <<>>)
RootPath == Path(TRUE, <<>>)

\* path.Join("/", p): the cleaned absolute path
JoinRoot(p) == Path(TRUE, SelectSeq(p.parts, LAMBDA c : c # "."))

\* strings.TrimPrefix(name, tarPrefix); the names of the model share no
\* partial component with a prefix
TrimPrefix(name, tarPrefix) ==
    IF tarPrefix # <<>> /\ name.abs /\ Len(name.parts) >= 1
          /\ name.parts[1] = tarPrefix[1]
    THEN Path(Len(name.parts) > 1, Tail(name.parts))
    ELSE name

\* variant: a file under another top-level directory is not noticed
prefixStepFirstDir(st, hdr) ==
    IF hdr.Typeflag # TypeReg THEN st
    ELSE IF st.hasPrefix /\ Len(JoinRoot(hdr.Name).parts) > 1
    THEN IF st.tarPrefix = <<>>
         THEN [st EXCEPT !.tarPrefix = <<JoinRoot(hdr.Name).parts[1]>>]
         ELSE st
    ELSE [st EXCEPT !.hasPrefix = FALSE]

\* one iteration of the first walk; st is [hasPrefix, tarPrefix], tarPrefix
\* being <<>> for "" and <<d>> for "/d"
prefixStep(st, hdr) ==
    IF hdr.Typeflag # TypeReg THEN st
    ELSE IF st.hasPrefix /\ Len(JoinRoot(hdr.Name).parts) > 1
    THEN IF st.tarPrefix = <<>>
         THEN [st EXCEPT !.tarPrefix = <<JoinRoot(hdr.Name).parts[1]>>]
         ELSE IF st.tarPrefix # <<JoinRoot(hdr.Name).parts[1]>>
         THEN [st EXCEPT !.hasPrefix = FALSE]
         ELSE st
    ELSE [st EXCEPT !.hasPrefix = FALSE]

RECURSIVE prefixFrom(_, _, _)
prefixFrom(entries, i, st) ==
    IF i > Len(entries) THEN st
    ELSE CHOOSE r \in {prefixFrom(entries, i + 1, n) :
                          n \in {prefixStep(st, entries[i])}} : TRUE

\* the tar prefix downloadVersion detects
detectTarPrefix(entries) ==
    CHOOSE r \in {IF st.hasPrefix THEN st.tarPrefix ELSE <<>> :
                     st \in {prefixFrom(entries, 1,
                                 [hasPrefix |-> TRUE, tarPrefix |-> <<>>])}} : TRUE

isManifestEntry(hdr) ==
    /\ hdr.Typeflag = TypeReg
    /\ JoinRoot(hdr.Name).parts # <<>>
    /\ JoinRoot(hdr.Name).parts[Len(JoinRoot(hdr.Name).parts)]
           \in {"manifest.webapp", "manifest.konnector"}

\* the icon path the second walk looks for
resolveIconPath(optsIcon, manifestIcon) ==
    LET iconPath == IF optsIcon # EmptyPath THEN optsIcon ELSE manifestIcon
    IN  IF iconPath = EmptyPath THEN JoinRoot(iconPath) ELSE iconPath

\* the name the second walk gives to an entry
harvestName(hdr, tarPrefix) ==
    IF tarPrefix # <<>> THEN JoinRoot(TrimPrefix(JoinRoot(hdr.Name), tarPrefix))
    ELSE JoinRoot(hdr.Name)

\* the attachments of the second walk (no screenshots declared)
harvestIcon(entries, tarPrefix, iconPath) ==
    LET hit(hdr) == /\ hdr.Typeflag \in {TypeReg, TypeDir}
                    /\ harvestName(hdr, tarPrefix) # RootPath
                    /\ iconPath # EmptyPath
                    /\ harvestName(hdr, tarPrefix) = iconPath
        found == SelectSeq(entries, hit)
    IN  [i \in 1..Len(found) |-> [Filename |-> "icon", data |-> found[i].Content]]

\* downloadVersion from the first walk on, for an archive whose manifest
\* passes the checks: returns [err] or [err, TarPrefix, attachments]
walkEntries(entries, optsIcon) ==
    LET manifests == SelectSeq(entries, isManifestEntry)
    IN  IF manifests = <<>> THEN [err |-> Unprocessable]
        ELSE CHOOSE r \in
            {[err |-> None, TarPrefix |-> tarPrefix,
              attachments |-> harvestIcon(entries, tarPrefix,
                                  resolveIconPath(optsIcon, manifests[1].Content.icon))] :
                tarPrefix \in {detectTarPrefix(entries)}} : TRUE

IconRelative == Path(FALSE, <<"icon.svg">>)
IconAbsolute == Path(TRUE, <<"icon.svg">>)

WalkEntries ==
    {TarEntry(TypeReg, Path(FALSE, <<"manifest.webapp">>), [icon |-> IconRelative]),
     TarEntry(TypeReg, Path(FALSE, <<"app", "manifest.webapp">>), [icon |-> IconRelative]),
     TarEntry(TypeReg, Path(FALSE, <<"app", "manifest.webapp">>), [icon |-> IconAbsolute]),
     TarEntry(TypeReg, Path(FALSE, <<"icon.svg">>), "icon-bytes"),
     TarEntry(TypeReg, Path(FALSE, <<".", "app", "icon.svg">>), "app-icon-bytes"),
     TarEntry(TypeReg, Path(FALSE, <<"lib", "x.js">>), "js-bytes"),
     TarEntry(TypeDir, Path(FALSE, <<"lib">>), ""),
     TarEntry(TypeSymlink, Path(FALSE, <<"latest">>), "")}

MaxEntries == 3

InitWalk ==
    /\ vault = {}
    /\ apps = {}
    /\ vers = {}
    /\ now = 0
    /\ pc = "downloaded"
    /\ req \in [entries : UNION {[1..n -> WalkEntries] : n \in 0..MaxEntries},
                Icon : {EmptyPath, IconAbsolute}]
    /\ audit = {}
    /\ call = NoRet
    /\ ret = NoRet

WalkDownloadVersion ==
    /\ pc = "downloaded"
    /\ pc' = "returned"
    /\ call' = [op |-> "downloadVersion"]
    /\ ret' = walkEntries(req.entries, req.Icon) @@ [op |-> "downloadVersion"]
    /\ UNCHANGED <<vault, apps, vers, now, req, audit>>

NextWalk == WalkDownloadVersion

SpecWalk == InitWalk /\ [][NextWalk]_vars

RegularFiles(entries) ==
    {i \in 1..Len(entries) : entries[i].Typeflag = TypeReg}

\* the first manifest of the archive
ManifestIcon(entries) == SelectSeq(entries, isManifestEntry)[1].Content.icon

\* the regular files the declared relative path p designates: those whose
\* cleaned name, below the tar prefix if there is one, is p
FilesAt(entries, tarPrefix, p) ==
    {i \in RegularFiles(entries) :
        JoinRoot(entries[i].Name).parts = tarPrefix \o p.parts}

\* C21: when the supplied options give no icon, the manifest declares a
\* relative icon path p, and the archive contains a regular file at p (below
\* the tar prefix if there is one), downloadVersion returns a Version
\* carrying an attachment named icon with that file's bytes.
C21_IconHarvested ==
    (/\ ret.op = "downloadVersion"
     /\ ret.err = None
     /\ req.Icon = EmptyPath
     /\ ManifestIcon(req.entries) = IconRelative) =>
        \A i \in FilesAt(req.entries, ret.TarPrefix, IconRelative) :
            \E k \in 1..Len(ret.attachments) :
                ret.attachments[k] = [Filename |-> "icon",
                                      data |-> req.entries[i].Content]

\* the top-level directories that hold every regular file of the archive
CommonDirs(entries) ==
    {d \in {"app", "lib"} :
        \A i \in RegularFiles(entries) :
            /\ Len(JoinRoot(entries[i].Name).parts) > 1
            /\ JoinRoot(entries[i].Name).parts[1] = d}

\* C22: downloadVersion sets tar_prefix to the common top-level directory
\* when every regular-file entry of the archive lies under one and the same
\* top-level directory, and to the empty string otherwise, independently of
\* the order of the entries.
C22_TarPrefixIsCommonDir ==
    (ret.op = "downloadVersion" /\ ret.err = None) =>
        /\ \A d \in CommonDirs(req.entries) : ret.TarPrefix = <<d>>
        /\ CommonDirs(req.entries) = {} => ret.TarPrefix = <<>>

\* an archive of three regular files of the directory app, the manifest last
C22_Witness ==
    /\ ret.op = "downloadVersion"
    /\ ret.err = None
    /\ ret.TarPrefix = <<"app">>
    /\ Cardinality(RegularFiles(req.entries)) = 3
    /\ ~isManifestEntry(req.entries[1])


(***************************************************************************)
(* Virtual spaces: what a regeneration stores, and its failures            *)
(***************************************************************************)

\* db.Delete(id, rev) of the document store: the document is deleted when
\* rev is its revision, the call is refused otherwise
deleteDoc(db, s, id, rev) ==
    IF \E d \in db : d.space = s /\ d.ID = id /\ d.Rev = rev
    THEN [err |-> None, vers |-> {d \in db : ~(d.space = s /\ d.ID = id)}]
    ELSE [err |-> ErrConflict, vers |-> db]

\* deleteOverwrittenTarball(s, version): returns [err, storage]
deleteOverwrittenTarball(storage, version, fault) ==
    IF "tarball" \in DOMAIN version.AttachmentReferences
    THEN IF fault.at = "Storage.Remove"
         THEN [err |-> ErrIO, storage |-> storage]
         ELSE [err |-> None,
               storage |-> {o \in storage :
                               ~(/\ o.prefix = VirtualName
                                 /\ o.name = version.AttachmentReferences["tarball"])}]
    ELSE [err |-> None, storage |-> storage]

\* DeleteOverwrittenVersion(s, version): the revision handed to db.Delete is
\* the version string of the document
DeleteOverwrittenVersion(version, fault) ==
    LET overwritten == findOverwrittenVersion(vers, VirtualName, version)
        t == IF overwritten = <<>> THEN [err |-> None, storage |-> audit.storage]
             ELSE deleteOverwrittenTarball(audit.storage, overwritten[1], fault)
        r == IF overwritten = <<>> \/ t.err # None THEN [err |-> t.err, vers |-> vers]
             ELSE deleteDoc(vers, VirtualName, overwritten[1].ID,
                            overwritten[1].Version)
    IN  /\ call' = [op |-> "DeleteOverwrittenVersion", Slug |-> version.Slug,
                    version |-> version, fault |-> fault]
        /\ ret' = [op |-> "DeleteOverwrittenVersion", err |-> r.err]
        /\ vers' = r.vers
        /\ audit' = [audit EXCEPT !.storage = t.storage]
        /\ UNCHANGED <<vault, apps, now, pc, req>>

FaultVersions == {d \in SourceVersions : d.Version \in {V100, V200da}}
FaultNames == {"Partner Notes"}
DeleteFaults == {f \in Faults : f.at \in {None, "Storage.Remove"} /\ f.channel = Stable}

NextFault ==
    \/ \E ver \in FaultVersions : VirtualCreateVersion(ver)
    \/ \E newName \in FaultNames, fault \in Faults :
          OverwriteAppName(SlugNotes, newName, fault)
    \/ \E file \in IconFiles, fault \in Faults :
          OverwriteAppIcon(SlugNotes, file, fault)
    \/ \E ver \in FaultVersions, fault \in DeleteFaults :
          DeleteOverwrittenVersion(ver, fault)

SpecFault == InitVirtual /\ [][NextFault]_vars

\* the Version document the virtual space holds for a version of the source
VirtualDocs(version) ==
    {d \in vers : d.space = VirtualName /\ d.ID = version.ID}

\* C28: when regeneration is driven by an override that sets only an icon
\* (no name override), the manifest stored in the regenerated Version
\* document of the virtual space equals the manifest of the source Version.
C28_IconOnlyKeepsManifest ==
    (/\ ret.op = "OverwriteAppIcon"
     /\ ret.err = None
     /\ DOMAIN OverwriteOf(call.Slug) = {"icon"}) =>
        \A channel \in Channels :
            \A last \in {FindLatestIn(vers, VirtualSource, call.Slug, channel)} :
                last.err = None =>
                    \A d \in VirtualDocs(last.latest[1]) :
                        d.Manifest = last.latest[1].Manifest

OverwriteOps == {"OverwriteAppName", "OverwriteAppIcon"}

\* the Version documents and the objects of the virtual space
VirtualVersions == {d \in vers : d.space = VirtualName}
VirtualObjects == {o \in audit.storage : o.prefix = VirtualName}

\* C23: in OverwriteAppName and OverwriteAppIcon, tarball regeneration runs
\* only after the override document has been upserted successfully: if the
\* upsert of the override document fails, no tarball is regenerated and no
\* Version document or object in the virtual space is written.
C23_NoRegenerationAfterFailedUpsert ==
    [][(ret'.op \in OverwriteOps /\ ret'.upsert # None) =>
          /\ ret'.created = {}
          /\ VirtualVersions' = VirtualVersions
          /\ VirtualObjects' = VirtualObjects]_vars

\* the objects of the virtual space with the digest h
ObjectsNamed(h) == {o \in VirtualObjects : o.name = h}

\* C24: when regenerateOverwrittenTarballs succeeds for a version that
\* already had a regenerated tarball with a different digest, the old
\* tarball object is no longer present in the virtual space's object-store
\* prefix afterwards; when the digest is unchanged the existing object is
\* kept.
C24_StaleTarballRemoved ==
    [][(ret'.op \in OverwriteOps /\ ret'.regenerate = None) =>
          \A old \in VirtualVersions :
              \A new \in {d \in VirtualVersions' : d.ID = old.ID} :
                  IF new.AttachmentReferences["tarball"]
                         # old.AttachmentReferences["tarball"]
                  THEN ObjectsNamed(old.AttachmentReferences["tarball"])' = {}
                  ELSE ObjectsNamed(old.AttachmentReferences["tarball"])
                           \subseteq ObjectsNamed(old.AttachmentReferences["tarball"])']_vars

\* a regeneration has succeeded that replaced the tarball of a version by
\* one with another digest, next to a version whose tarball it kept
C24_Witness ==
    /\ ret.op \in OverwriteOps
    /\ ret.regenerate = None
    /\ ret.removed # {}
    /\ \A o \in ret.removed : o \notin VirtualObjects
    /\ Cardinality(VirtualVersions) = 2
    /\ \A d \in VirtualVersions :
          ObjectsNamed(d.AttachmentReferences["tarball"]) # {}

\* C25: every temporary file created by generateOverwrittenTarball during a
\* call of regenerateOverwrittenTarballs has been removed by the time
\* regenerateOverwrittenTarballs returns, on success and on every error
\* path (archive read error, storage error, document-store error), for
\* every channel processed.
C25_NoTemporaryFileLeft == audit.tmp = {}

\* a regeneration has failed in its second iteration that created a file,
\* after a first iteration that created one
C25_Witness ==
    /\ ret.op \in OverwriteOps
    /\ ret.err = ErrIO
    /\ ret.upsert = None
    /\ Cardinality(ret.created) = 2
    /\ audit.tmp = {}

\* C29: DeleteOverwrittenVersion, called for a version that has a
\* regenerated Version in the virtual space, removes both the regenerated
\* tarball object and the Version document, so that FindOverwrittenVersion
\* afterwards returns none; called when no regenerated Version exists, it
\* changes nothing and returns no error.
C29_DeleteRemovesBoth ==
    [][(call'.op = "DeleteOverwrittenVersion" /\ call'.fault = NoFault) =>
          IF \E d \in VirtualVersions : d.ID = call'.version.ID
          THEN /\ \A d \in vers' : ~(d.space = VirtualName /\ d.ID = call'.version.ID)
               /\ \A d \in VirtualVersions :
                     d.ID = call'.version.ID =>
                         \A o \in audit'.storage :
                             ~(/\ o.prefix = VirtualName
                               /\ o.name = d.AttachmentReferences["tarball"])
          ELSE /\ ret'.err = None
               /\ vers' = vers
               /\ audit' = audit]_vars

\* C30: in every reachable state, including after a regeneration or a
\* DeleteOverwrittenVersion that failed part-way, each Version document of a
\* virtual space whose attachment map has a tarball digest refers to an
\* object that is present in that virtual space's object-store prefix.
C30_TarballPresent ==
    \A d \in VirtualVersions :
        "tarball" \in DOMAIN d.AttachmentReferences =>
            ObjectsNamed(d.AttachmentReferences["tarball"]) # {}

(***************************************************************************)
(* CreateVersion when the store fails on an attachment                      *)
(***************************************************************************)

\* CreateVersion(c, ver, app, editor) in a run where db.PutAttachment fails
\* on the attachment number failAt (none when failAt is 0): returns
\* [err, vers]
CreateVersionFailing(c, ver, app, failAt) ==
    IF ver.Slug # app.Slug THEN [err |-> ErrVersionSlugMismatch, vers |-> vers]
    ELSE IF FindVersion(c, ver.Slug, ver.Version).err = None
         THEN [err |-> ErrVersionAlreadyExists, vers |-> vers]
    ELSE IF CreateDocConflicts(vers, c, docID(vers, stampVersion(ver, app).ID))
         THEN [err |-> ErrConflict, vers |-> vers]
    ELSE IF failAt \in 1..Len(ver.attachments)
         THEN [err |-> ErrIO,
               vers |-> vers \cup
                   {[versionDoc(c, stampVersion(ver, app))
                        EXCEPT !.Attachments =
                            Range(SubSeq(ver.attachments, 1, failAt - 1))]}]
    ELSE [err |-> None,
          vers |-> vers \cup
              {[versionDoc(c, stampVersion(ver, app))
                   EXCEPT !.Attachments = Range(ver.attachments)]}]

MaxAttachments == 2

AttachCreateVersion(c, ver, app, failAt) ==
    /\ call' = [op |-> "CreateVersion", c |-> c, Slug |-> ver.Slug,
                Version |-> ver.Version, failAt |-> failAt]
    /\ ret' = [op |-> "CreateVersion",
               err |-> CreateVersionFailing(c, ver, app, failAt).err]
    /\ vers' = CreateVersionFailing(c, ver, app, failAt).vers
    /\ UNCHANGED <<vault, apps, now, pc, req, audit>>

AttachSpaces == {"main"}

NextAttach ==
    \/ \E c \in AttachSpaces, opts \in AppOptions, editor \in vault :
          SeqCreateApp(c, opts, editor)
    \/ \E c \in AttachSpaces, ver \in Downloaded(SeqRequestOptions, now),
          failAt \in 0..MaxAttachments :
          \E app \in {a \in apps : a.space = c} :
              AttachCreateVersion(c, ver, app, failAt)

SpecAttach == InitSeq /\ [][NextAttach]_vars

\* C27: if CreateVersion returns an error, no Version document exists for
\* (space, slug, version-string) afterwards, so that the same publish can be
\* repeated; in particular a failure while storing one of the attachments
\* does not leave a Version document behind.  A call that is refused
\* because the Version exists leaves the one that was there: the failed
\* call adds no document.
C27_FailedCreateLeavesNoVersion ==
    [][(call'.op = "CreateVersion" /\ ret'.err # None) => vers' = vers]_vars

(***************************************************************************)
(* The views of the versions of an app                                     *)
(***************************************************************************)

\* String.prototype.split(sep): every field
Split(s, sep) == SplitN(s, sep, Len(s) + 1)

\* parseInt(s, 10): the number the leading digits of s spell, NaN when s
\* does not start with a digit
NaN == "NaN"
RECURSIVE LeadingDigits(_)
LeadingDigits(s) ==
    IF s = <<>> \/ ~IsDigit(Head(s)) THEN <<>>
    ELSE <<Head(s)>> \o LeadingDigits(Tail(s))
parseInt(s) == IF LeadingDigits(s) = <<>> THEN NaN ELSE AtoiAcc(LeadingDigits(s), 0)

\* expandVersion(doc) of viewsHelpers
viewExpandVersion(doc) ==
    LET sp == Split(doc.Version, <<".">>)
        channel == getVersionChannel(doc.Version)
    IN  IF Len(sp) >= 3
        THEN [v |-> <<parseInt(sp[1]), parseInt(sp[2]),
                      parseInt(Split(sp[3], <<"-">>)[1])>>,
              channel |-> channel,
              code |-> IF channel = Stable THEN 1 ELSE 0,
              exp |-> IF channel = Beta /\ Len(sp) > 3 THEN parseInt(sp[4]) ELSE 0,
              date |-> doc.CreatedAt]
        ELSE [v |-> <<0, 0, 0>>, channel |-> "undefined", code |-> 0, exp |-> 0,
              date |-> doc.CreatedAt]

\* the keys the map functions emit for a document: <<>> when none is emitted
devView(doc) ==
    LET version == viewExpandVersion(doc)
    IN  <<version.v \o <<version.code, version.date>>>>

betaView(doc) ==
    LET version == viewExpandVersion(doc)
    IN  IF version.channel \in {Beta, Stable}
        THEN <<version.v \o <<version.code, version.exp>>>>
        ELSE <<>>

stableView(doc) ==
    LET version == viewExpandVersion(doc)
    IN  IF version.channel = Stable THEN <<version.v>> ELSE <<>>

\* the collation of the view: two keys that are arrays of numbers are
\* compared element by element, the shorter first when one starts the other
RECURSIVE collateLess(_, _)
collateLess(k1, k2) ==
    IF k1 = <<>> THEN k2 # <<>>
    ELSE IF k2 = <<>> THEN FALSE
    ELSE IF Head(k1) # Head(k2) THEN Head(k1) < Head(k2)
    ELSE collateLess(Tail(k1), Tail(k2))

InitView ==
    /\ NoStore
    /\ call \in [a : VersionDocs(OrderVersions), b : VersionDocs(OrderVersions)]
    /\ ret = NoRet

\* the rows of the three views for the two documents
ViewMap ==
    /\ ret = NoRet
    /\ call.a.Version # call.b.Version
    /\ ret' = [op |-> "view",
               dev |-> [a |-> devView(call.a), b |-> devView(call.b)],
               beta |-> [a |-> betaView(call.a), b |-> betaView(call.b)],
               stable |-> [a |-> stableView(call.a), b |-> stableView(call.b)]]
    /\ UNCHANGED <<call, StoreVars>>

NextView == ViewMap

SpecView == InitView /\ [][NextView]_vars

\* the ordering the claim states: a ranks below b
TripleOf(doc) == viewExpandVersion(doc).v
ChannelRank(doc) ==
    IF getVersionChannel(doc.Version) = Stable THEN 2
    ELSE IF getVersionChannel(doc.Version) = Beta THEN 1 ELSE 0
RanksBelow(a, b) ==
    IF TripleOf(a) # TripleOf(b) THEN collateLess(TripleOf(a), TripleOf(b))
    ELSE IF ChannelRank(a) # ChannelRank(b) THEN ChannelRank(a) < ChannelRank(b)
    ELSE IF ChannelRank(a) = 1
    THEN viewExpandVersion(a).exp < viewExpandVersion(b).exp
    ELSE a.CreatedAt < b.CreatedAt

\* C26: for any two versions of one app, the order of the keys emitted by
\* the per-app dev and beta views agrees with the version ordering of
\* section 4.1: MAJOR, then MINOR, then PATCH; on equal triples stable above
\* beta above dev; two betas by numeric beta counter; otherwise the newer
\* creation timestamp is higher.
C26_ViewsAgreeWithOrdering ==
    ret.op = "view" =>
        /\ RanksBelow(call.a, call.b)
              => collateLess(ret.dev.a[1], ret.dev.b[1])
        /\ (ret.beta.a # <<>> /\ ret.beta.b # <<>> /\ RanksBelow(call.a, call.b))
              => collateLess(ret.beta.a[1], ret.beta.b[1])

====
